---- MODULE Spec2Model ----
(***************************************************************************)
(* A model of the transcription service: the in-memory rate limiter, the   *)
(* synchronous endpoint's error translation, the asynchronous submission   *)
(* endpoint, the job store client, the job service and the background      *)
(* transcription task.                                                     *)
(***************************************************************************)
EXTENDS Integers, Sequences, FiniteSets, TLC

VARIABLES
    \* -- rate limiter (API process)
    now,                \* the clock read by datetime.utcnow(), in seconds
    requests,           \* RateLimiter.requests: client -> list of timestamps
    enable_rate_limit,  \* settings.enable_rate_limit
    rlCalls,            \* history: every check_rate_limit dependency call
    \* -- synchronous endpoint
    syncReq,            \* the request of POST /api/v1/transcribe being handled
    syncResp,           \* the response to it
    \* -- configuration and the key-value store's connection (API process)
    enable_async,       \* settings.enable_async
    redisUp,            \* whether the key-value store (and broker) answers
    client,             \* RedisClient._client is not None
    available,          \* RedisClient._available
    \* -- the key-value store, the broker, the temp directory
    store,              \* job:{id} -> job record
    filekey,            \* job:file:{id} -> file path
    disk,               \* the files that exist under the temp directory
    queue,              \* task messages waiting in the broker
    revoking,           \* revoke broadcasts sent and not yet received by the worker
    w_revoked,          \* the task ids the worker knows as revoked
    \* -- one request handler of the API process
    a_pc,               \* where the handler is
    a_job,              \* its job id
    a_path,             \* its saved upload (input_path)
    a_status,           \* cancel_job: job_info.status as read by get_job
    a_read,             \* update_job: job_data as read
    resp,               \* the last response sent
    submits,            \* number of POST /api/v1/transcribe-async requests so far
    cancels,            \* number of POST /api/v1/jobs/{id}/cancel requests so far
    nextJob,            \* the next uuid4 of create_job
    nextFile,           \* the next uuid4 of get_safe_path
    \* -- the worker process running transcribe_file_task
    w_pc,               \* where the task body is
    w_task,             \* the task message being executed (self.request)
    w_read,             \* update_job: job_data as read
    w_temp,             \* temp_files
    w_sig,              \* the soft time limit signal was delivered to this run
    w_events,           \* this run's record writes and its existence check, in order
    w_ret,              \* what this run's last update_job call returned
    \* -- history
    enqueued,           \* every apply_async call of the submission endpoint
    attempts,           \* job id -> number of runs of the task body
    revokes,            \* number of control.revoke calls
    cancelled200,       \* the jobs whose cancellation was answered 200
    lastEnd,            \* how the last run of the task body ended
    \* -- health endpoints
    model_loaded,       \* the default model is in ModelManager._models
    temp_dir_ok,        \* settings.temp_dir exists and is a directory
    health,             \* the last response of GET /health or GET /health/ready
    \* -- job listing
    kv,                 \* the keys of the store a listing scans, with their values
    listing,            \* the last response of GET /api/v1/jobs
    \* -- a call of RedisClient.connect
    conn_pc,            \* idle, trying (inside the loop), done
    conn_retries,       \* its retries argument
    conn_tried,         \* the connection attempts it has made
    conn_result,        \* what it returned: the cached or a new connection, or none
    \* -- the periodic reconnection job
    hc_tick,            \* flips each time the job finds the available flag down
    hc_attempted,       \* whether it then made a connection attempt
    \* -- one job's two records in the store, and their expiry
    job_ttl,            \* seconds job:{id} has left to live, 0: the key is gone
    file_ttl,           \* seconds job:file:{id} has left to live, 0: gone
    ttl_ret,            \* what the last create_job or update_job call did
    \* -- one run of transcribe_file or of the task body, and its temp files
    c_pc,               \* idle, finally (in the cleanup loop), done
    c_run,              \* the run: its kind, its file, what leaves its body
    c_tracked,          \* temp_files
    c_disk,             \* the run's files that exist under the temp directory
    c_i,                \* position of the cleanup loop in temp_files
    c_outcome,          \* the exception that leaves the run, "none": it returns
    \* -- calls of get_safe_path
    p_name,             \* the original file name
    p_used,             \* the tokens uuid4 has produced
    p_out,              \* what the last call returned or raised
    \* -- the temp directory's files and one upload handled by SecureFileHandler
    fs,                 \* the file system: path -> what is there
    up_file,            \* the upload: its bytes and its stream position
    up_path,            \* the path save_upload wrote to
    up_ret,             \* what the last save_upload or cleanup_file call did
    \* -- one call of validate_upload_file
    v_file,             \* the upload and its stream position
    v_out,              \* what the call returned or raised
    \* -- one call of a timestamp formatter
    ts_in,              \* its seconds argument, in ticks
    ts_out,             \* the string it returned
    \* -- one call of estimate_processing_time
    est_in,             \* duration, model name and configured device
    est_out,            \* the estimate returned
    \* -- update_job calls on one job record, with their timestamps
    u_data,             \* the record stored under the job key
    u_now,              \* the clock read by datetime.utcnow(), in ticks
    u_args,             \* the arguments of the last update_job call
    \* -- ModelManager and the threads calling get_model
    m_lock,             \* ModelManager._lock: the thread holding it
    m_models,           \* ModelManager._models: cache key -> instance
    m_pc,               \* where each thread is in get_model
    m_call,             \* the arguments of each thread's call
    m_ret,              \* what each thread's last call returned or raised
    m_next,             \* the next WhisperModel instance to be constructed
    m_calls,            \* history: the number of get_model calls made
    m_loaded,           \* history: per key, the constructor runs that succeeded
    m_returned,         \* history: per key, the instances returned to callers
    \* -- JobService.delete_job, statement by statement
    d_ret,              \* what its cleanup_file call returned
    \* -- the asynchronous endpoint's probe
    s_too_long,         \* get_audio_info of the last submission reported a
                        \* duration above settings.max_duration
    \* -- the application's lifespan
    l_pc,               \* where lifespan is: down, connecting, preloading,
                        \* up or stopped
    l_scheduler,        \* the scheduler of redis_health_check is running
    l_slept             \* seconds the startup connect spent in time.sleep

rlVars == <<now, requests, enable_rate_limit, rlCalls>>
syncVars == <<syncReq, syncResp>>
envVars == <<enable_async, redisUp, client, available>>
storeVars == <<store, filekey, disk, queue, revoking, w_revoked>>
apiVars == <<a_pc, a_job, a_path, a_status, a_read, resp, submits, cancels, nextJob, nextFile>>
workerVars == <<w_pc, w_task, w_read, w_temp, w_sig, w_events, w_ret>>
histVars == <<enqueued, attempts, revokes, cancelled200, lastEnd>>
jobVars == <<envVars, storeVars, apiVars, workerVars, histVars>>
healthVars == <<model_loaded, temp_dir_ok, health>>
listVars == <<kv, listing>>
connVars == <<conn_pc, conn_retries, conn_tried, conn_result>>
healVars == <<hc_tick, hc_attempted>>
ttlVars == <<job_ttl, file_ttl, ttl_ret>>
cleanVars == <<c_pc, c_run, c_tracked, c_disk, c_i, c_outcome>>
pathVars == <<p_name, p_used, p_out>>
auxVars == <<ttlVars, cleanVars, pathVars>>
upVars == <<fs, up_file, up_path, up_ret>>
valVars == <<v_file, v_out>>
tsVars == <<ts_in, ts_out>>
estVars == <<est_in, est_out>>
updVars == <<u_data, u_now, u_args>>
cacheVars == <<m_lock, m_models, m_pc, m_call, m_ret, m_next, m_calls, m_loaded, m_returned>>
delVars == <<d_ret>>
subVars == <<s_too_long>>
lifeVars == <<l_pc, l_scheduler, l_slept>>
lateVars == <<updVars, cacheVars, delVars, subVars, lifeVars>>
fnVars == <<upVars, valVars, tsVars, estVars, lateVars>>
extVars == <<healthVars, listVars, connVars, healVars, auxVars, fnVars>>
vars == <<rlVars, syncVars, jobVars, extVars>>
baseVars == <<rlVars, syncVars, jobVars, healthVars, listVars, connVars, healVars, auxVars,
              upVars, valVars, tsVars, estVars>>

(***************************************************************************)
(* Part 1. Rate limiter (app/api/dependencies.py)                          *)
(***************************************************************************)


\* The clients (request.client.host values) of the model.
Clients == {"c1", "c2"}

\* settings.rate_limit_per_minute, the cap N handed to RateLimiter.
requests_per_minute == 2

\* timedelta(minutes=1), in seconds.
WindowSeconds == 60

\* The clock advances in steps of TickSeconds, at most MaxTicks times.
TickSeconds == 20
MaxTicks == 5

\* At most MaxCalls calls of the dependency are made.
MaxCalls == 5

\* The list comprehension of check_rate_limit: keep req_time > minute_ago.
PruneKeepAll(reqs, t) == reqs
Prune(reqs, t) == SelectSeq(reqs, LAMBDA req_time : req_time > t - WindowSeconds)

\* RateLimiter.check_rate_limit's return value for a ledger and a time.
WithinLimit(reqs, t) == Len(Prune(reqs, t)) < requests_per_minute

\* The client's ledger after RateLimiter.check_rate_limit(client) at time t.
LedgerAfterAlwaysAppend(reqs, t) == Append(Prune(reqs, t), t)
LedgerAfter(reqs, t) ==
    IF WithinLimit(reqs, t) THEN Append(Prune(reqs, t), t) ELSE Prune(reqs, t)

\* The dependency check_rate_limit(request): returns at once when rate
\* limiting is disabled, else asks the limiter and raises 429 on False.
CheckRateLimit(c) ==
    /\ Len(rlCalls) < MaxCalls
    /\ IF ~enable_rate_limit
       THEN /\ rlCalls' = Append(rlCalls, [client |-> c, t |-> now, outcome |-> "bypass"])
            /\ UNCHANGED requests
       ELSE /\ requests' = [requests EXCEPT ![c] = LedgerAfter(requests[c], now)]
            /\ rlCalls' = Append(rlCalls,
                  [client |-> c, t |-> now,
                   outcome |-> IF WithinLimit(requests[c], now)
                               THEN "accepted" ELSE "rate_limit_exceeded"])
    /\ UNCHANGED <<now, enable_rate_limit, syncVars, extVars, jobVars>>

\* Time passes.
Tick ==
    /\ now < MaxTicks * TickSeconds
    /\ now' = now + TickSeconds
    /\ UNCHANGED <<requests, enable_rate_limit, rlCalls, syncVars, extVars, jobVars>>

InitRL ==
    /\ now = 0
    /\ requests = [c \in Clients |-> <<>>]
    /\ enable_rate_limit \in BOOLEAN
    /\ rlCalls = <<>>

NextRL ==
    \/ \E c \in Clients : CheckRateLimit(c)
    \/ Tick

(***************************************************************************)
(* Part 2. Upload validation and the synchronous endpoint                  *)
(* (app/utils/validators.py, app/services/transcription_service.py,        *)
(*  app/api/routes/transcription.py)                                       *)
(***************************************************************************)


ALLOWED_AUDIO_EXTENSIONS == {".mp3", ".wav", ".ogg", ".flac", ".m4a", ".aac", ".wma"}
ALLOWED_VIDEO_EXTENSIONS == {".mp4", ".webm", ".avi", ".mov", ".mkv", ".flv"}
ALLOWED_EXTENSIONS == ALLOWED_AUDIO_EXTENSIONS \cup ALLOWED_VIDEO_EXTENSIONS

ALLOWED_MIME_TYPES ==
    {"audio/mpeg", "audio/wav", "audio/ogg", "audio/flac", "audio/mp4", "audio/aac",
     "audio/x-ms-wma", "video/mp4", "video/webm", "video/x-msvideo",
     "video/quicktime", "video/x-matroska", "video/x-flv"}

\* MAGIC_BYTES, each signature a sequence of bytes.
MagicExtensions == {".mp3", ".wav", ".ogg", ".flac", ".mp4", ".webm", ".avi"}
MAGIC_BYTES(ext) ==
    CASE ext = ".mp3"  -> {<<"I", "D", "3">>, <<"ff", "fb">>, <<"ff", "f3">>, <<"ff", "f2">>}
      [] ext = ".wav"  -> {<<"R", "I", "F", "F">>}
      [] ext = ".ogg"  -> {<<"O", "g", "g", "S">>}
      [] ext = ".flac" -> {<<"f", "L", "a", "C">>}
      [] ext = ".mp4"  -> {<<"f", "t", "y", "p">>, <<"m", "d", "a", "t">>, <<"m", "o", "o", "v">>}
      [] ext = ".webm" -> {<<"1a", "45", "df", "a3">>}
      [] ext = ".avi"  -> {<<"R", "I", "F", "F">>}
      [] OTHER -> {}

\* settings.max_file_size and settings.max_duration.
max_file_size == 1073741824
max_duration == 3600

\* os.path.splitext(filename)[1].lower() on the extensions of the model.
LowerExt(e) ==
    CASE e = ".MP3" -> ".mp3"
      [] e = ".WAV" -> ".wav"
      [] e = ".TXT" -> ".txt"
      [] OTHER -> e

\* bytes.__contains__: magic occurs in header as a contiguous run.
Contains(header, magic) ==
    \E i \in 0..(Len(header) - Len(magic)) :
        \A k \in 1..Len(magic) : header[i + k] = magic[k]

\* validate_file_extension: the error raised, or "none".
validate_file_extension(ext) ==
    IF LowerExt(ext) = "" THEN "InvalidFileFormatError"
    ELSE IF LowerExt(ext) \notin ALLOWED_EXTENSIONS THEN "InvalidFileFormatError"
    ELSE "none"

validate_mime_type(content_type) ==
    IF content_type \notin ALLOWED_MIME_TYPES THEN "InvalidFileFormatError" ELSE "none"

validate_file_size(file_size) ==
    IF file_size > max_file_size THEN "FileTooLargeError" ELSE "none"

validate_magic_bytes(header, file_ext) ==
    IF file_ext \notin MagicExtensions THEN TRUE
    ELSE \E magic \in MAGIC_BYTES(file_ext) : Contains(header, magic)

\* validate_upload_file: the error raised by the first failing check, or "none".
validate_upload_file_size_first(file) ==
    IF validate_file_size(file.size) # "none" THEN validate_file_size(file.size)
    ELSE IF validate_file_extension(file.ext) # "none" THEN validate_file_extension(file.ext)
    ELSE IF validate_mime_type(file.content_type) # "none"
         THEN validate_mime_type(file.content_type)
    ELSE IF ~validate_magic_bytes(file.header, LowerExt(file.ext))
         THEN "InvalidFileFormatError"
    ELSE "none"
validate_upload_file(file) ==
    IF validate_file_extension(file.ext) # "none" THEN validate_file_extension(file.ext)
    ELSE IF validate_mime_type(file.content_type) # "none"
         THEN validate_mime_type(file.content_type)
    ELSE IF validate_file_size(file.size) # "none" THEN validate_file_size(file.size)
    ELSE IF ~validate_magic_bytes(file.header, LowerExt(file.ext))
         THEN "InvalidFileFormatError"
    ELSE "none"

\* The uploads of the model.
UploadExts == {".mp3", ".WAV", ".wav", ".mp4", ".txt", ""}
UploadMimes == {"audio/mpeg", "audio/wav", "video/mp4", "text/plain"}
UploadSizes == {1024, max_file_size, max_file_size + 1}
UploadHeaders ==
    {<<"R", "I", "F", "F", "0">>, <<"I", "D", "3">>, <<"0", "f", "t", "y", "p">>,
     <<"I", "N", "V", "A", "L", "I", "D">>}
Uploads ==
    [ext : UploadExts, content_type : UploadMimes, size : UploadSizes,
     header : UploadHeaders]

\* What the external tools do with one request: the step of the pipeline that
\* fails ("none": no step fails) and whether the probed duration exceeds
\* settings.max_duration.
PipelineFailures == {"none", "save", "probe", "extract", "convert", "engine"}

\* TranscriptionService.transcribe_file: the exception that leaves it, or
\* "none" when it returns a result.  The error raised inside the try block ...
RaisedInTry(file, fails, too_long) ==
    IF validate_upload_file(file) # "none" THEN validate_upload_file(file)
    ELSE IF fails = "save" THEN "Exception"
    ELSE IF fails = "probe" THEN "ProcessingError"
    ELSE IF too_long THEN "InvalidParameterError"
    ELSE IF fails = "extract" /\ LowerExt(file.ext) \in ALLOWED_VIDEO_EXTENSIONS
         THEN "ProcessingError"
    ELSE IF fails = "convert" /\ LowerExt(file.ext) # ".wav" THEN "ProcessingError"
    ELSE IF fails = "engine" THEN "TranscriptionFailedError"
    ELSE "none"

\* ... and what its except clauses turn it into.
transcribe_file(file, fails, too_long) ==
    LET e == RaisedInTry(file, fails, too_long) IN
    IF e \in {"none", "InvalidParameterError", "TranscriptionFailedError"} THEN e
    ELSE "TranscriptionFailedError"

\* The except clauses of the route transcribe.
transcribe_route(exc) ==
    CASE exc = "none" -> [code |-> 200, error |-> "none"]
      [] exc = "InvalidFileFormatError" -> [code |-> 400, error |-> "invalid_file_format"]
      [] exc = "FileTooLargeError" -> [code |-> 413, error |-> "file_too_large"]
      [] exc = "InvalidParameterError" -> [code |-> 422, error |-> "invalid_parameter"]
      [] exc = "TranscriptionFailedError" -> [code |-> 422, error |-> "transcription_failed"]
      [] OTHER -> [code |-> 500, error |-> "internal_server_error"]

NoRequest == [op |-> "none"]

\* POST /api/v1/transcribe, handling the request that arrived.
Transcribe ==
    /\ syncReq # NoRequest
    /\ syncResp = NoRequest
    /\ syncResp' = transcribe_route(
                       transcribe_file(syncReq.file, syncReq.fails, syncReq.too_long))
    /\ UNCHANGED <<syncReq, rlVars, jobVars, extVars>>

\* One request of the synchronous endpoint: an upload and what the tools do.
SyncRequests ==
    [op : {"transcribe"}, file : Uploads, fails : PipelineFailures, too_long : BOOLEAN]

InitSync ==
    /\ syncReq \in SyncRequests
    /\ syncResp = NoRequest

IdleSync ==
    /\ syncReq = NoRequest
    /\ syncResp = NoRequest

IdleRL ==
    /\ now = 0
    /\ requests = [c \in Clients |-> <<>>]
    /\ enable_rate_limit = TRUE
    /\ rlCalls = <<>>

(***************************************************************************)
(* Part 3. The job store client, the job service, the asynchronous         *)
(* submission endpoint and the job routes                                  *)
(* (app/core/redis_client.py, app/services/job_service.py,                 *)
(*  app/api/routes/transcription.py, app/api/routes/jobs.py)               *)
(***************************************************************************)

\* At most MaxSubmits submissions and MaxCancels cancellations are requested.
MaxSubmits == 1
MaxCancels == 2

JobIds == 1..MaxSubmits

\* settings.max_job_retry, the task's max_retries.
max_retries == 3

\* A job record's progress key is absent.
NoProgress == -1

\* No value under a key of the store, and a value not read yet.
NoRec == [status |-> "absent"]
Unread == [status |-> "unread"]
NoPath == <<>>
NoTask == [id |-> 0]

\* RedisClient.create_job: the job_info written under job:{id}.
NewJob ==
    [status |-> "pending", progress |-> NoProgress, result |-> "none",
     error |-> "none", detail |-> "none",
     started_at |-> FALSE, completed_at |-> FALSE, failed_at |-> FALSE]

\* RedisClient.update_job: the record written back for the record read.
\* "none" (NoProgress) stands for an argument left None.
update_job_drop_error(data, status, progress, result, error, detail) ==
    [data EXCEPT !.status = status]
update_job(data, status, progress, result, error, detail) ==
    LET d1 == IF status = "none" THEN data
              ELSE [data EXCEPT
                      !.status = status,
                      !.started_at = IF status = "processing" THEN TRUE ELSE @,
                      !.completed_at = IF status = "completed" THEN TRUE ELSE @,
                      !.progress = IF status = "completed" THEN 100 ELSE @,
                      !.failed_at = IF status = "failed" THEN TRUE ELSE @]
        d2 == IF progress = NoProgress THEN d1 ELSE [d1 EXCEPT !.progress = progress]
        d3 == IF result = "none" THEN d2 ELSE [d2 EXCEPT !.result = result]
        d4 == IF error = "none" THEN d3 ELSE [d3 EXCEPT !.error = error]
    IN  IF detail = "none" THEN d4 ELSE [d4 EXCEPT !.detail = detail]

\* The store after update_job's setex, given the job_data its get returned:
\* nothing is written when the get found no record.
StoreAfterUpsert(job, read, status, progress, result, error, detail) ==
    [store EXCEPT ![job] = update_job(IF read = NoRec THEN NewJob ELSE read,
                                      status, progress, result, error, detail)]
StoreAfterUpdate(job, read, status, progress, result, error, detail) ==
    IF read = NoRec THEN store
    ELSE [store EXCEPT ![job] = update_job(read, status, progress, result, error, detail)]

\* update_job's return value: False when the get found no record (or the call
\* raised), True after the setex.
update_job_returns(read) == IF read = NoRec THEN "False" ELSE "True"

\* get_safe_path: a fresh token and the lower-cased extension of the upload.
SafePath(token, ext) == <<token, LowerExt(ext)>>

\* The apply_async call of transcribe_async: task_id is the job id, the
\* arguments are the job id and the saved path.
TaskMessageOtherId(job_id, path) ==
    [id |-> job_id + MaxSubmits, job |-> job_id, path |-> path, retries |-> 0]
TaskMessage(job_id, path) ==
    [id |-> job_id, job |-> job_id, path |-> path, retries |-> 0]

\* transcribe_async's two guards: async enabled, and redis_client.is_connected().
AsyncAvailableNoPing == enable_async /\ client
AsyncAvailable == enable_async /\ client /\ redisUp

Response(op, job, code, error, status) ==
    [op |-> op, job |-> job, code |-> code, error |-> error, status |-> status]

\* What can fail between validation and create_job in transcribe_async.
SubmitFailures == {"none", "save", "probe"}

\* POST /api/v1/transcribe-async, up to the call of create_job: the guards,
\* validate_upload_file, save_upload and get_audio_info.
SubmitCheck ==
    /\ a_pc = "idle"
    /\ submits < MaxSubmits
    /\ submits' = submits + 1
    /\ \E file \in Uploads, fails \in SubmitFailures, too_long \in BOOLEAN :
        LET invalid == validate_upload_file(file)
            path == SafePath(nextFile, file.ext)
        IN
        IF ~AsyncAvailable
        THEN /\ resp' = Response("submit", 0, 503, "service_unavailable", "none")
             \* is_connected: a ping that raises clears the available flag
             /\ available' = IF enable_async /\ client /\ ~redisUp THEN FALSE ELSE available
             /\ s_too_long' = FALSE
             /\ UNCHANGED <<a_pc, a_path, disk, nextFile>>
        ELSE IF invalid # "none"
        THEN /\ resp' = IF invalid = "InvalidFileFormatError"
                        THEN Response("submit", 0, 400, "invalid_file_format", "none")
                        ELSE Response("submit", 0, 413, "file_too_large", "none")
             /\ s_too_long' = FALSE
             /\ UNCHANGED <<a_pc, a_path, disk, nextFile, available>>
        ELSE IF fails = "save"
        THEN \* save_upload unlinks the partial file and re-raises
             /\ resp' = Response("submit", 0, 500, "internal_server_error", "none")
             /\ nextFile' = nextFile + 1
             /\ s_too_long' = FALSE
             /\ UNCHANGED <<a_pc, a_path, disk, available>>
        ELSE IF fails = "probe"
        THEN \* get_audio_info raises ProcessingError; the saved file stays
             /\ resp' = Response("submit", 0, 500, "internal_server_error", "none")
             /\ disk' = disk \cup {path}
             /\ nextFile' = nextFile + 1
             /\ s_too_long' = FALSE
             /\ UNCHANGED <<a_pc, a_path, available>>
        ELSE \* the probed duration is kept for the metadata and the estimate only
             /\ s_too_long' = too_long
             /\ disk' = disk \cup {path}
             /\ nextFile' = nextFile + 1
             /\ a_pc' = "create_job"
             /\ a_path' = path
             /\ UNCHANGED <<resp, available>>
    /\ UNCHANGED <<a_job, a_status, a_read, cancels, nextJob>>
    /\ UNCHANGED <<enable_async, redisUp, client, store, filekey, queue, revoking, w_revoked>>
    /\ UNCHANGED <<rlVars, syncVars, workerVars, histVars>>
    /\ UNCHANGED <<healthVars, listVars, connVars, healVars, auxVars>>
    /\ UNCHANGED <<upVars, valVars, tsVars, estVars, updVars, cacheVars, delVars, lifeVars>>

\* JobService.create_job and RedisClient.create_job, first setex: the job record.
SubmitCreateJob ==
    /\ a_pc = "create_job"
    /\ nextJob' = nextJob + 1
    /\ a_job' = nextJob
    /\ IF redisUp
       THEN /\ store' = [store EXCEPT ![nextJob] = NewJob]
            /\ a_pc' = "create_file"
            /\ UNCHANGED <<resp, a_path>>
       ELSE \* create_job returns False, InvalidParameterError, the route's 500
            /\ resp' = Response("submit", 0, 500, "internal_server_error", "none")
            /\ a_pc' = "idle"
            /\ a_path' = NoPath
            /\ UNCHANGED store
    /\ UNCHANGED <<a_status, a_read, submits, cancels, nextFile>>
    /\ UNCHANGED <<envVars, filekey, disk, queue, revoking, w_revoked>>
    /\ UNCHANGED <<rlVars, syncVars, extVars, workerVars, histVars>>

\* RedisClient.create_job, second setex: the file path record.
SubmitCreateFileKey ==
    /\ a_pc = "create_file"
    /\ IF redisUp
       THEN /\ filekey' = [filekey EXCEPT ![a_job] = a_path]
            /\ a_pc' = "enqueue"
            /\ UNCHANGED <<resp, a_path>>
       ELSE /\ resp' = Response("submit", 0, 500, "internal_server_error", "none")
            /\ a_pc' = "idle"
            /\ a_path' = NoPath
            /\ UNCHANGED filekey
    /\ UNCHANGED <<a_job, a_status, a_read, submits, cancels, nextJob, nextFile>>
    /\ UNCHANGED <<envVars, store, disk, queue, revoking, w_revoked>>
    /\ UNCHANGED <<rlVars, syncVars, extVars, workerVars, histVars>>

\* transcribe_file_task.apply_async(...), the estimate and the 202 response.
SubmitEnqueue ==
    /\ a_pc = "enqueue"
    /\ IF redisUp
       THEN /\ queue' = queue \cup {TaskMessage(a_job, a_path)}
            /\ enqueued' = Append(enqueued, TaskMessage(a_job, a_path))
            /\ resp' = Response("submit", a_job, 202, "none", "pending")
       ELSE /\ resp' = Response("submit", 0, 500, "internal_server_error", "none")
            /\ UNCHANGED <<queue, enqueued>>
    /\ a_pc' = "idle"
    /\ a_path' = NoPath
    /\ UNCHANGED <<a_job, a_status, a_read, submits, cancels, nextJob, nextFile>>
    /\ UNCHANGED <<envVars, store, filekey, disk, revoking, w_revoked>>
    /\ UNCHANGED <<rlVars, syncVars, extVars, workerVars, attempts, revokes, cancelled200, lastEnd>>

\* GET /api/v1/status/{job_id}: get_job reads through the client property, which
\* connects when there is no connection yet; a failed read is logged and the
\* job reported as not found.
GetStatus(job) ==
    /\ a_pc = "idle"
    /\ client' = (client \/ redisUp)
    /\ available' = IF client THEN available ELSE redisUp
    /\ resp' = IF ~redisUp \/ store[job] = NoRec
               THEN Response("status", job, 404, "job_not_found", "none")
               ELSE Response("status", job, 200, "none", store[job].status)
    /\ UNCHANGED <<a_pc, a_job, a_path, a_status, a_read, submits, cancels, nextJob, nextFile>>
    /\ UNCHANGED <<enable_async, redisUp, storeVars>>
    /\ UNCHANGED <<rlVars, syncVars, extVars, workerVars, histVars>>

\* JobService.cancel_job up to update_job: get_job, the status test, the revoke;
\* and the route's 400 when cancel_job returns False.
Cancellable == {"pending", "processing"}
\* "if job_info.status == JobStatus.PROCESSING": the revoke is sent.
ShouldRevokeAlways(status) == TRUE
ShouldRevoke(status) == status = "processing"
CancelGetJob(job) ==
    /\ a_pc = "idle"
    /\ cancels < MaxCancels
    /\ cancels' = cancels + 1
    /\ a_job' = job
    /\ a_status' = store[job].status
    /\ IF store[job].status \notin Cancellable
       THEN /\ resp' = Response("cancel", job, 400, "cannot_cancel", "none")
            /\ UNCHANGED <<a_pc, revoking, revokes>>
       ELSE /\ a_pc' = "cancel_get"
            /\ IF ShouldRevoke(store[job].status)
               THEN /\ revoking' = revoking \cup {job}
                    /\ revokes' = revokes + 1
               ELSE UNCHANGED <<revoking, revokes>>
            /\ UNCHANGED resp
    /\ UNCHANGED <<a_path, a_read, submits, nextJob, nextFile>>
    /\ UNCHANGED <<envVars, store, filekey, disk, queue, w_revoked>>
    /\ UNCHANGED <<rlVars, syncVars, extVars, workerVars, enqueued, attempts, cancelled200, lastEnd>>

\* update_job(job_id, status=CANCELLED): the get ...
CancelUpdateGet ==
    /\ a_pc = "cancel_get"
    /\ a_read' = store[a_job]
    /\ a_pc' = "cancel_set"
    /\ UNCHANGED <<a_job, a_path, a_status, resp, submits, cancels, nextJob, nextFile>>
    /\ UNCHANGED <<envVars, storeVars>>
    /\ UNCHANGED <<rlVars, syncVars, extVars, workerVars, histVars>>

\* ... and the setex; cancel_job returns True and the route answers 200.
CancelUpdateSet ==
    /\ a_pc = "cancel_set"
    /\ store' = StoreAfterUpdate(a_job, a_read, "cancelled", NoProgress, "none", "none", "none")
    /\ a_read' = Unread
    /\ a_pc' = "idle"
    /\ resp' = Response("cancel", a_job, 200, "none", "none")
    /\ cancelled200' = cancelled200 \cup {a_job}
    /\ UNCHANGED <<a_job, a_path, a_status, submits, cancels, nextJob, nextFile>>
    /\ UNCHANGED <<envVars, filekey, disk, queue, revoking, w_revoked>>
    /\ UNCHANGED <<rlVars, syncVars, extVars, workerVars, enqueued, attempts, revokes, lastEnd>>

\* DELETE /api/v1/jobs/{job_id}: JobService.delete_job reads the file-path
\* record, removes that file, and RedisClient.delete_job deletes both keys and
\* returns True; it returns False, and the route answers 404, only when the
\* store raises.
DeleteJob(job) ==
    /\ a_pc = "idle"
    /\ IF redisUp
       THEN /\ disk' = IF filekey[job] # NoPath THEN disk \ {filekey[job]} ELSE disk
            /\ store' = [store EXCEPT ![job] = NoRec]
            /\ filekey' = [filekey EXCEPT ![job] = NoPath]
            /\ resp' = Response("delete", job, 200, "none", "none")
       ELSE /\ resp' = Response("delete", job, 404, "job_not_found", "none")
            /\ UNCHANGED <<disk, store, filekey>>
    /\ UNCHANGED <<a_pc, a_job, a_path, a_status, a_read, submits, cancels, nextJob, nextFile>>
    /\ UNCHANGED <<envVars, queue, revoking, w_revoked>>
    /\ UNCHANGED <<rlVars, syncVars, extVars, workerVars, histVars>>

(***************************************************************************)
(* Part 4. The background transcription task                               *)
(* (tasks/transcription_tasks.py, app/core/transcription/engine.py,        *)
(*  app/core/transcription/processor.py)                                   *)
(***************************************************************************)

\* The update_job calls of the task: where the task is -> the arguments.
UpdatePcs == {"start", "p5", "p15", "p25", "p30", "p95", "complete", "timeout", "fail"}
TaskUpdate(pc) ==
    CASE pc = "start"    -> [status |-> "processing", progress |-> 0, result |-> "none",
                             error |-> "none", detail |-> "none"]
      [] pc = "p5"       -> [status |-> "processing", progress |-> 5, result |-> "none",
                             error |-> "none", detail |-> "none"]
      [] pc = "p15"      -> [status |-> "processing", progress |-> 15, result |-> "none",
                             error |-> "none", detail |-> "none"]
      [] pc = "p25"      -> [status |-> "processing", progress |-> 25, result |-> "none",
                             error |-> "none", detail |-> "none"]
      [] pc = "p30"      -> [status |-> "processing", progress |-> 30, result |-> "none",
                             error |-> "none", detail |-> "none"]
      [] pc = "p95"      -> [status |-> "processing", progress |-> 95, result |-> "none",
                             error |-> "none", detail |-> "none"]
      [] pc = "complete" -> [status |-> "completed", progress |-> 100,
                             result |-> "formatted_result",
                             error |-> "none", detail |-> "none"]
      [] pc = "timeout"  -> [status |-> "failed", progress |-> NoProgress, result |-> "none",
                             error |-> "timeout", detail |-> "exceeded time limit"]
      [] pc = "fail"     -> [status |-> "failed", progress |-> NoProgress, result |-> "none",
                             error |-> "transcription_failed", detail |-> "str(e)"]

\* What a run did, in order: an update_job call that wrote the record, as the
\* (status, progress, result) it passed, and the "input_path.exists()" test.
TaskEvent(u) == <<u.status, u.progress, u.result>>
ExistsEvent == <<"exists", NoProgress, "none">>

\* The files of a run: input_path, input_path.with_suffix('.wav') and
\* input_path.with_stem(stem + '_converted').with_suffix('.wav').
ExtOf(path) == path[2]
AudioPath(path) == <<path[1], ".wav">>
WavPath(path) == <<path[1], "_converted.wav">>
IsVideo(path) == ExtOf(path) \in ALLOWED_VIDEO_EXTENSIONS
NeedsConvert(path) == ExtOf(path) # ".wav"

\* Where the task body goes after the statement at pc has run without raising.
NextPc(pc, path) ==
    CASE pc = "start"    -> "check"
      [] pc = "check"    -> "p5"
      [] pc = "p5"       -> "probe"
      [] pc = "probe"    -> "p15"
      [] pc = "p15"      -> IF IsVideo(path) THEN "extract" ELSE "p25"
      [] pc = "extract"  -> "p25"
      [] pc = "p25"      -> IF NeedsConvert(path) THEN "convert" ELSE "p30"
      [] pc = "convert"  -> "p30"
      [] pc = "p30"      -> "engine"
      [] pc = "engine"   -> "p95"
      [] pc = "p95"      -> "complete"
      [] pc = "complete" -> "return"
      [] pc = "timeout"  -> "reraise"
      [] pc = "fail"     -> "retry"

\* The statements of the try block, the calls of external tools among them.
TryPcs == {"start", "check", "p5", "probe", "p15", "extract", "p25", "convert",
           "p30", "engine", "p95", "complete"}
ToolPcs == {"probe", "extract", "convert", "engine"}

\* The handler's test "self.request.retries < self.max_retries".
CanRetryOffByOne(retries) == retries <= max_retries
CanRetry(retries) == retries < max_retries

\* The worker takes a task message from the broker; a message whose id it knows
\* as revoked is discarded, any other starts a run of transcribe_file_task.
WorkerReceive(msg) ==
    /\ w_pc = "idle"
    /\ msg \in queue
    /\ queue' = queue \ {msg}
    /\ IF msg.id \in w_revoked
       THEN UNCHANGED <<workerVars, attempts>>
       ELSE /\ w_pc' = "start"
            /\ w_task' = msg
            /\ w_read' = Unread
            /\ w_temp' = {}
            /\ w_sig' = FALSE
            /\ w_events' = <<>>
            /\ w_ret' = "none"
            /\ attempts' = [attempts EXCEPT ![msg.job] = @ + 1]
    /\ UNCHANGED <<envVars, store, filekey, disk, revoking, w_revoked>>
    /\ UNCHANGED <<rlVars, syncVars, extVars, apiVars, enqueued, revokes, cancelled200, lastEnd>>

\* An update_job call of the task (directly or through update_progress): the get ...
WorkerUpdateGet ==
    /\ w_pc \in UpdatePcs
    /\ w_read = Unread
    /\ w_read' = store[w_task.job]
    /\ UNCHANGED <<w_pc, w_task, w_temp, w_sig, w_events, w_ret>>
    /\ UNCHANGED <<envVars, storeVars>>
    /\ UNCHANGED <<rlVars, syncVars, extVars, apiVars, histVars>>

\* ... and the setex.
WorkerUpdateSet ==
    /\ w_pc \in UpdatePcs
    /\ w_read # Unread
    /\ LET u == TaskUpdate(w_pc) IN
       store' = StoreAfterUpdate(w_task.job, w_read, u.status, u.progress, u.result,
                                 u.error, u.detail)
    /\ w_read' = Unread
    /\ w_pc' = NextPc(w_pc, w_task.path)
    /\ w_events' = IF w_read = NoRec THEN w_events
                   ELSE Append(w_events, TaskEvent(TaskUpdate(w_pc)))
    /\ w_ret' = update_job_returns(w_read)
    /\ UNCHANGED <<w_task, w_temp, w_sig>>
    /\ UNCHANGED <<envVars, filekey, disk, queue, revoking, w_revoked>>
    /\ UNCHANGED <<rlVars, syncVars, extVars, apiVars, histVars>>

\* "if not input_path.exists(): raise FileNotFoundError"; temp_files.append.
WorkerCheckFile ==
    /\ w_pc = "check"
    /\ IF w_task.path \in disk
       THEN /\ w_pc' = NextPc("check", w_task.path)
            /\ w_temp' = w_temp \cup {w_task.path}
       ELSE /\ w_pc' = "fail"
            /\ UNCHANGED w_temp
    /\ w_events' = Append(w_events, ExistsEvent)
    /\ UNCHANGED <<w_task, w_read, w_sig, w_ret>>
    /\ UNCHANGED <<envVars, storeVars>>
    /\ UNCHANGED <<rlVars, syncVars, extVars, apiVars, histVars>>

\* get_audio_info, extract_audio_from_video, convert_to_wav and
\* whisper_engine.transcribe: each returns, or raises ProcessingError or
\* TranscriptionFailedError, which the task's "except Exception" handles.
WorkerTool ==
    /\ w_pc \in ToolPcs
    /\ \E ok \in BOOLEAN :
        IF ~ok
        THEN /\ w_pc' = "fail"
             /\ UNCHANGED <<w_temp, disk>>
        ELSE /\ w_pc' = NextPc(w_pc, w_task.path)
             /\ IF w_pc = "extract"
                THEN /\ disk' = disk \cup {AudioPath(w_task.path)}
                     /\ w_temp' = w_temp \cup {AudioPath(w_task.path)}
                ELSE IF w_pc = "convert"
                THEN /\ disk' = disk \cup {WavPath(w_task.path)}
                     /\ w_temp' = w_temp \cup {WavPath(w_task.path)}
                ELSE UNCHANGED <<w_temp, disk>>
    /\ UNCHANGED <<w_task, w_read, w_sig, w_events, w_ret>>
    /\ UNCHANGED <<envVars, store, filekey, queue, revoking, w_revoked>>
    /\ UNCHANGED <<rlVars, syncVars, extVars, apiVars, histVars>>

\* The soft time limit (soft_time_limit=3600) raises SoftTimeLimitExceeded, an
\* Exception, in whatever the run is executing.  Raised in the task body itself
\* ("body") it reaches the task's "except SoftTimeLimitExceeded".  Raised inside
\* a call ("call") it first meets that call's own "except Exception":
\* update_job and update_progress log it and return, the audio processor
\* re-raises it as ProcessingError and the engine as TranscriptionFailedError.
SoftTimeLimit ==
    /\ w_pc \in TryPcs
    /\ ~w_sig
    /\ w_sig' = TRUE
    /\ w_read' = Unread
    /\ \E where \in {"body", "call"} :
        IF where = "body" \/ w_pc = "check"
        THEN /\ w_read = Unread
             /\ w_pc' = "timeout"
        ELSE IF w_pc \in ToolPcs
        THEN w_pc' = "fail"
        ELSE w_pc' = NextPc(w_pc, w_task.path)
    /\ w_ret' = IF w_pc \in UpdatePcs /\ w_pc' # "timeout" THEN "False" ELSE w_ret
    /\ UNCHANGED <<w_task, w_temp, w_events>>
    /\ UNCHANGED <<envVars, storeVars>>
    /\ UNCHANGED <<rlVars, syncVars, extVars, apiVars, histVars>>

\* The run ends: the return, the re-raise of SoftTimeLimitExceeded, or the
\* handler's "raise self.retry(...)" / "raise TranscriptionFailedError"; then the
\* finally clause cleans up temp_files.
WorkerEnd ==
    /\ w_pc \in {"return", "reraise", "retry"}
    /\ LET retried == w_pc = "retry" /\ CanRetry(w_task.retries) IN
       /\ queue' = IF retried
                   THEN queue \cup {[w_task EXCEPT !.retries = @ + 1]}
                   ELSE queue
       /\ lastEnd' = [job |-> w_task.job,
                      retries |-> w_task.retries,
                      sig |-> w_sig,
                      checked |-> w_task.path \in w_temp,
                      marked |-> CASE w_pc = "return" -> "none"
                                   [] w_pc = "reraise" -> "timeout"
                                   [] w_pc = "retry" -> "transcription_failed",
                      exc |-> CASE w_pc = "return" -> "none"
                                [] w_pc = "reraise" -> "SoftTimeLimitExceeded"
                                [] retried -> "Retry"
                                [] OTHER -> "TranscriptionFailedError"]
    /\ disk' = disk \ w_temp
    /\ w_pc' = "idle"
    /\ w_task' = NoTask
    /\ w_temp' = {}
    /\ w_sig' = FALSE
    /\ w_events' = <<>>
    /\ w_ret' = "none"
    /\ UNCHANGED w_read
    /\ UNCHANGED <<envVars, store, filekey, revoking, w_revoked>>
    /\ UNCHANGED <<rlVars, syncVars, extVars, apiVars, enqueued, attempts, revokes, cancelled200>>

\* The worker receives a revoke(task_id, terminate=True) broadcast: it remembers
\* the id and, if it is running that task, terminates the run where it is.
RevokeReceived(id) ==
    /\ id \in revoking
    /\ revoking' = revoking \ {id}
    /\ w_revoked' = w_revoked \cup {id}
    /\ IF w_pc # "idle" /\ w_task.id = id
       THEN /\ w_pc' = "idle"
            /\ w_task' = NoTask
            /\ w_read' = Unread
            /\ w_temp' = {}
            /\ w_sig' = FALSE
            /\ w_events' = <<>>
            /\ w_ret' = "none"
       ELSE UNCHANGED workerVars
    /\ UNCHANGED <<envVars, store, filekey, disk, queue>>
    /\ UNCHANGED <<rlVars, syncVars, extVars, apiVars, histVars>>


(***************************************************************************)
(* Part 5. The key-value store's availability and the specifications       *)
(***************************************************************************)

\* The key-value store stops answering, and answers again.
RedisDown ==
    /\ redisUp
    /\ redisUp' = FALSE
    /\ UNCHANGED <<enable_async, client, available>>
    /\ UNCHANGED <<rlVars, syncVars, extVars, storeVars, apiVars, workerVars, histVars>>

RedisUp ==
    /\ ~redisUp
    /\ redisUp' = TRUE
    /\ UNCHANGED <<enable_async, client, available>>
    /\ UNCHANGED <<rlVars, syncVars, extVars, storeVars, apiVars, workerVars, histVars>>

\* redis_health_check: reconnect when async is enabled and the available flag
\* is down.  connect() returns the cached connection when there is one.
HealthCheck ==
    /\ enable_async
    /\ ~available
    /\ IF client
       THEN /\ hc_attempted' = FALSE
            /\ UNCHANGED <<client, available>>
       ELSE /\ hc_attempted' = TRUE
            /\ client' = redisUp
            /\ available' = redisUp
    /\ hc_tick' = ~hc_tick
    /\ UNCHANGED <<enable_async, redisUp>>
    /\ UNCHANGED <<rlVars, syncVars, storeVars, apiVars, workerVars, histVars>>
    /\ UNCHANGED <<healthVars, listVars, connVars, auxVars, fnVars>>

IdleJobs ==
    /\ store = [j \in JobIds |-> NoRec]
    /\ filekey = [j \in JobIds |-> NoPath]
    /\ disk = {}
    /\ queue = {}
    /\ revoking = {}
    /\ w_revoked = {}
    /\ a_pc = "idle"
    /\ a_job = 0
    /\ a_path = NoPath
    /\ a_status = "absent"
    /\ a_read = Unread
    /\ resp = Response("none", 0, 0, "none", "none")
    /\ submits = 0
    /\ cancels = 0
    /\ nextJob = 1
    /\ nextFile = 1
    /\ w_pc = "idle"
    /\ w_task = NoTask
    /\ w_read = Unread
    /\ w_temp = {}
    /\ w_sig = FALSE
    /\ w_events = <<>>
    /\ w_ret = "none"
    /\ enqueued = <<>>
    /\ attempts = [j \in JobIds |-> 0]
    /\ revokes = 0
    /\ cancelled200 = {}
    /\ lastEnd = [job |-> 0, retries |-> 0, sig |-> FALSE, checked |-> FALSE,
                  marked |-> "none", exc |-> "none"]

\* The store is connected at startup and stays reachable.
IdleEnv ==
    /\ enable_async = TRUE
    /\ redisUp = TRUE
    /\ client = TRUE
    /\ available = TRUE

\* lifespan: with async enabled, the startup connect() succeeds or fails.
InitEnv ==
    /\ enable_async \in BOOLEAN
    /\ redisUp \in BOOLEAN
    /\ client = (enable_async /\ redisUp)
    /\ available = (enable_async /\ redisUp)

(***************************************************************************)
(* Part 6. The health endpoints (app/api/routes/health.py)                 *)
(***************************************************************************)

\* A check's value as reported: True, False, or None for a check not made.
PyBool(b) == IF b THEN "True" ELSE "False"

\* _check_temp_dir and is_model_loaded.
check_temp_dir == temp_dir_ok
is_model_loaded == model_loaded

\* _check_redis: the cached available flag, else is_connected()'s ping.
check_redis == IF available THEN TRUE ELSE client /\ redisUp

\* What celery_app.control.inspect().active() can do: return None (no reply),
\* an empty or a non-empty dict of workers, or raise.
InspectOutcomes == {"none", "empty", "some", "raises"}

\* _check_celery_workers.  When inspect raises, the handler calls logger.debug
\* on the name "logger" imported from fastapi and returns False; if that name
\* has no debug attribute the AttributeError leaves the function ("raises").
check_celery_workers(inspected, logger_has_debug) ==
    IF ~available THEN "True"
    ELSE IF inspected = "raises"
         THEN (IF logger_has_debug THEN "False" ELSE "raises")
    ELSE IF inspected = "some" THEN "True"
    ELSE "False"

\* health_check: the overall status for the checks.
HealthStatusCriticalOnly(checks) ==
    IF checks.model_loaded # "True" \/ checks.temp_dir_writable # "True"
    THEN "unhealthy"
    ELSE "healthy"
HealthStatus(checks) ==
    IF checks.model_loaded # "True" \/ checks.temp_dir_writable # "True"
    THEN "unhealthy"
    ELSE IF checks.redis_connected = "False" \/ checks.celery_workers = "False"
    THEN "degraded"
    ELSE "healthy"

NoChecks ==
    [model_loaded |-> "None", temp_dir_writable |-> "None",
     redis_connected |-> "None", celery_workers |-> "None"]

\* What the process and the store were like when a response was computed.
Seen(inspected) ==
    [async |-> enable_async, model |-> model_loaded, temp |-> temp_dir_ok,
     available |-> available, ping |-> client /\ redisUp, inspected |-> inspected]

NoHealth ==
    [op |-> "none", code |-> 0, status |-> "none", checks |-> NoChecks,
     seen |-> [async |-> FALSE, model |-> FALSE, temp |-> FALSE,
               available |-> FALSE, ping |-> FALSE, inspected |-> "none"]]

\* GET /health.
GetHealth ==
    /\ \E inspected \in InspectOutcomes, logger_has_debug \in BOOLEAN :
        /\ inspected = "some" => redisUp
        /\ LET workers == IF enable_async
                          THEN check_celery_workers(inspected, logger_has_debug)
                          ELSE "None"
               checks == [model_loaded |-> PyBool(is_model_loaded),
                          temp_dir_writable |-> PyBool(check_temp_dir),
                          redis_connected |-> IF enable_async THEN PyBool(check_redis)
                                              ELSE "None",
                          celery_workers |-> workers]
           IN  health' = IF workers = "raises"
                         THEN [op |-> "health", code |-> 500, status |-> "none",
                               checks |-> NoChecks, seen |-> Seen(inspected)]
                         ELSE [op |-> "health", code |-> 200,
                               status |-> HealthStatus(checks),
                               checks |-> checks, seen |-> Seen(inspected)]
    /\ UNCHANGED <<model_loaded, temp_dir_ok>>
    /\ UNCHANGED <<rlVars, syncVars, jobVars, listVars, connVars, healVars, auxVars, fnVars>>

\* GET /health/ready.
GetReady ==
    /\ LET redis_connected == IF enable_async THEN check_redis ELSE TRUE
           is_ready == is_model_loaded /\ check_temp_dir /\ redis_connected
       IN  health' = [op |-> "ready",
                      code |-> IF is_ready THEN 200 ELSE 503,
                      status |-> IF is_ready THEN "ready" ELSE "not_ready",
                      checks |-> [model_loaded |-> PyBool(is_model_loaded),
                                  temp_dir_writable |-> PyBool(check_temp_dir),
                                  redis_connected |-> PyBool(redis_connected),
                                  celery_workers |-> "None"],
                      seen |-> Seen("none")]
    /\ UNCHANGED <<model_loaded, temp_dir_ok>>
    /\ UNCHANGED <<rlVars, syncVars, jobVars, listVars, connVars, healVars, auxVars, fnVars>>

\* The default model gets loaded by the first transcription when the preload
\* at startup failed.
ModelLoaded ==
    /\ ~model_loaded
    /\ model_loaded' = TRUE
    /\ UNCHANGED <<temp_dir_ok, health>>
    /\ UNCHANGED <<rlVars, syncVars, jobVars, listVars, connVars, healVars, auxVars, fnVars>>

\* The temp directory is removed or created again from outside.
TempDirChange ==
    /\ temp_dir_ok' = ~temp_dir_ok
    /\ UNCHANGED <<model_loaded, health>>
    /\ UNCHANGED <<rlVars, syncVars, jobVars, listVars, connVars, healVars, auxVars, fnVars>>

\* lifespan: the preload of the default model succeeds or fails; Settings
\* creates the temp directory.
InitHealth ==
    /\ model_loaded \in BOOLEAN
    /\ temp_dir_ok = TRUE
    /\ health = NoHealth

IdleHealth ==
    /\ model_loaded = TRUE
    /\ temp_dir_ok = TRUE
    /\ health = NoHealth

(***************************************************************************)
(* Part 7. Job listing (JobService.list_jobs, RedisClient.list_jobs)       *)
(***************************************************************************)

\* The stored jobs of a listing: at most MaxListJobs job ids, created at one
\* of MaxListTime instants.
MaxListJobs == 3
MaxListTime == 2
MaxPage == 3
MaxPageSize == 2
ListIdNames == <<"a1", "b2", "c3", "d4", "e5">>
ListJobIds == {ListIdNames[n] : n \in 1..MaxListJobs}
ListStatuses == {"pending", "completed"}

\* _job_key and _job_file_key: "job:{id}" and "job:file:{id}", as the
\* colon-separated parts of the key.
job_key(job_id) == <<"job", job_id>>
job_file_key(job_id) == <<"job", "file", job_id>>
ListKeys == {job_key(id) : id \in ListJobIds} \cup {job_file_key(id) : id \in ListJobIds}

\* scan(match="job:*") and key.startswith("job:file:").
MatchesJobStar(key) == Len(key) >= 2 /\ key[1] = "job"
StartsWithJobFile(key) == Len(key) >= 3 /\ key[1] = "job" /\ key[2] = "file"

\* The job_info of create_job, as far as a listing reads it.
ListedJob(job_id, status, created_at) ==
    [job_id |-> job_id, status |-> status, created_at |-> created_at]
FileValue(job_id) == [path |-> job_id]

\* The orders in which a scan can return a set of keys.
RECURSIVE Perms(_)
Perms(S) ==
    IF S = {} THEN {<<>>}
    ELSE UNION {{<<x>> \o p : p \in Perms(S \ {x})} : x \in S}

\* RedisClient.list_jobs: the loop over the scanned keys.
RECURSIVE redis_list_jobs(_, _, _, _)
redis_list_jobs(keys, status, limit, jobs) ==
    IF keys = <<>> THEN jobs
    ELSE LET key == Head(keys) IN
         IF StartsWithJobFile(key) \/ kv[key] = NoRec
         THEN redis_list_jobs(Tail(keys), status, limit, jobs)
         ELSE IF status = "None" \/ kv[key].status = status
         THEN LET more == Append(jobs, kv[key]) IN
              IF Len(more) >= limit THEN more
              ELSE redis_list_jobs(Tail(keys), status, limit, more)
         ELSE redis_list_jobs(Tail(keys), status, limit, jobs)

\* all_jobs.sort(key=created_at, reverse=True): stable, newest first.
RECURSIVE InsertByCreatedDesc(_, _)
InsertByCreatedDesc(sorted, x) ==
    IF sorted = <<>> THEN <<x>>
    ELSE IF Head(sorted).created_at >= x.created_at
         THEN <<Head(sorted)>> \o InsertByCreatedDesc(Tail(sorted), x)
         ELSE <<x>> \o sorted
RECURSIVE SortByCreatedDesc(_)
SortByCreatedDesc(jobs) ==
    IF jobs = <<>> THEN <<>>
    ELSE InsertByCreatedDesc(SortByCreatedDesc(SubSeq(jobs, 1, Len(jobs) - 1)),
                             jobs[Len(jobs)])

\* all_jobs[start_idx:end_idx].
Slice(s, start_idx, end_idx) ==
    SubSeq(s, start_idx + 1, IF end_idx < Len(s) THEN end_idx ELSE Len(s))

\* The limit JobService.list_jobs passes to RedisClient.list_jobs.
ListLimit == 1000

\* JobService.list_jobs for one order of the scan.
PageStartOffByOne(page, page_size) == page * page_size
PageStart(page, page_size) == (page - 1) * page_size
list_jobs(keys, status, page, page_size) ==
    LET all_jobs == SortByCreatedDesc(redis_list_jobs(keys, status, ListLimit, <<>>))
        start_idx == PageStart(page, page_size)
    IN  [jobs |-> Slice(all_jobs, start_idx, start_idx + page_size),
         total |-> Len(all_jobs),
         page |-> page,
         page_size |-> page_size,
         status |-> status]

NoListing ==
    [jobs |-> <<>>, total |-> 0, page |-> 0, page_size |-> 0, status |-> "None"]

\* GET /api/v1/jobs, once over the store as it is.
ListJobs ==
    /\ listing = NoListing
    /\ \E status \in ListStatuses \cup {"None"}, page \in 1..MaxPage,
          page_size \in 1..MaxPageSize,
          keys \in Perms({k \in ListKeys : kv[k] # NoRec /\ MatchesJobStar(k)}) :
            listing' = list_jobs(keys, status, page, page_size)
    /\ UNCHANGED kv
    /\ UNCHANGED <<rlVars, syncVars, jobVars, healthVars, connVars, healVars, auxVars, fnVars>>

\* The store of a listing: per job id nothing, a file-path record left
\* behind, or a job record with its file-path record.
InitList ==
    /\ kv \in {f \in [ListKeys -> {NoRec} \cup {FileValue(id) : id \in ListJobIds}
                                  \cup {ListedJob(id, s, t) : id \in ListJobIds,
                                            s \in ListStatuses, t \in 1..MaxListTime}] :
                \A id \in ListJobIds :
                    /\ f[job_file_key(id)] \in {NoRec, FileValue(id)}
                    /\ f[job_key(id)] \in {NoRec} \cup {ListedJob(id, s, t) :
                                             s \in ListStatuses, t \in 1..MaxListTime}
                    /\ f[job_key(id)] # NoRec => f[job_file_key(id)] # NoRec}
    /\ listing = NoListing

IdleList ==
    /\ kv = [k \in ListKeys |-> NoRec]
    /\ listing = NoListing

(***************************************************************************)
(* Part 8. RedisClient.connect, attempt by attempt                         *)
(***************************************************************************)

\* connect is called with retries in 0..MaxConnectRetries (3 by default).
MaxConnectRetries == 3

\* "if attempt < retries": another attempt follows a failed one.
MoreAttemptsOffByOne(attempt, retries) == attempt <= retries
MoreAttempts(attempt, retries) == attempt < retries

\* connect(retries): the cached connection is returned at once; with nothing
\* to try the loop body never runs and the fall-through clears both fields.
ConnectCall ==
    /\ conn_pc \in {"idle", "done"}
    /\ \E retries \in 0..MaxConnectRetries :
        /\ conn_retries' = retries
        /\ conn_tried' = 0
        /\ IF client
           THEN /\ conn_pc' = "done"
                /\ conn_result' = "cached"
                /\ UNCHANGED <<client, available>>
           ELSE IF ~MoreAttempts(0, retries)
           THEN /\ conn_pc' = "done"
                /\ conn_result' = "none"
                /\ client' = FALSE
                /\ available' = FALSE
           ELSE /\ conn_pc' = "trying"
                /\ conn_result' = "pending"
                /\ UNCHANGED <<client, available>>
    /\ UNCHANGED <<enable_async, redisUp>>
    /\ UNCHANGED <<rlVars, syncVars, storeVars, apiVars, workerVars, histVars>>
    /\ UNCHANGED <<healthVars, listVars, healVars, auxVars, fnVars>>

\* One pass of the loop: redis.Redis(...) is assigned to _client, then pinged.
\* A ping that answers sets available and returns; one that fails is followed
\* by the sleep and the next pass, or after the last pass by the fall-through
\* "available = False; _client = None".
ConnectAttempt ==
    /\ conn_pc = "trying"
    /\ conn_tried' = conn_tried + 1
    /\ IF redisUp
       THEN /\ client' = TRUE
            /\ available' = TRUE
            /\ conn_pc' = "done"
            /\ conn_result' = "connected"
       ELSE IF MoreAttempts(conn_tried + 1, conn_retries)
       THEN /\ client' = TRUE
            /\ UNCHANGED <<available, conn_pc, conn_result>>
       ELSE /\ client' = FALSE
            /\ available' = FALSE
            /\ conn_pc' = "done"
            /\ conn_result' = "none"
    /\ UNCHANGED <<enable_async, redisUp, conn_retries>>
    /\ UNCHANGED <<rlVars, syncVars, storeVars, apiVars, workerVars, histVars>>
    /\ UNCHANGED <<healthVars, listVars, healVars, auxVars, fnVars>>

\* RedisClient.disconnect: closes and forgets the connection; the available
\* flag is left as it is.
Disconnect ==
    /\ conn_pc # "trying"
    /\ client
    /\ client' = FALSE
    /\ UNCHANGED <<enable_async, redisUp, available>>
    /\ UNCHANGED <<rlVars, syncVars, storeVars, apiVars, workerVars, histVars>>
    /\ UNCHANGED <<healthVars, listVars, connVars, healVars, auxVars, fnVars>>

\* RedisClient.is_connected from some request: a ping that raises clears the
\* available flag.
IsConnected ==
    /\ conn_pc # "trying"
    /\ available' = IF client /\ ~redisUp THEN FALSE ELSE available
    /\ UNCHANGED <<enable_async, redisUp, client>>
    /\ UNCHANGED <<rlVars, syncVars, storeVars, apiVars, workerVars, histVars>>
    /\ UNCHANGED <<healthVars, listVars, connVars, healVars, auxVars, fnVars>>

\* RedisClient.__init__: no connection, not available.
InitConnect ==
    /\ enable_async = TRUE
    /\ redisUp \in BOOLEAN
    /\ client = FALSE
    /\ available = FALSE

\* The same with either setting of enable_async.
InitConnect2 ==
    /\ enable_async \in BOOLEAN
    /\ redisUp \in BOOLEAN
    /\ client = FALSE
    /\ available = FALSE

IdleConnect ==
    /\ conn_pc = "idle"
    /\ conn_retries = 0
    /\ conn_tried = 0
    /\ conn_result = "none"

IdleHeal ==
    /\ hc_tick = FALSE
    /\ hc_attempted = FALSE

(***************************************************************************)
(* Part 9. The expiry of a job's two records                               *)
(***************************************************************************)

\* settings.job_result_ttl, and the extra hour create_job gives the file-path
\* record, in seconds.
job_result_ttl == 86400
file_ttl_extra == 3600

\* The step by which time passes in the model, in seconds.
TtlTick == 3600

\* A key set by SETEX with n seconds to live exists while n > 0 remain.
Remaining(ttl, dt) == IF ttl > dt THEN ttl - dt ELSE 0

\* RedisClient.create_job: SETEX job:{id}, then SETEX job:file:{id}.
TtlCreateJob ==
    /\ job_ttl' = job_result_ttl
    /\ file_ttl' = job_result_ttl + file_ttl_extra
    /\ ttl_ret' = "created"
    /\ UNCHANGED <<rlVars, syncVars, jobVars, healthVars, listVars, connVars, healVars, fnVars>>
    /\ UNCHANGED <<cleanVars, pathVars>>

\* RedisClient.update_job: GET job:{id}; when it is there, SETEX job:{id} with
\* the full time to live again.  The file-path record is not touched.
TtlUpdateJob ==
    /\ IF job_ttl = 0
       THEN /\ ttl_ret' = "not_found"
            /\ UNCHANGED job_ttl
       ELSE /\ ttl_ret' = "updated"
            /\ job_ttl' = job_result_ttl
    /\ UNCHANGED file_ttl
    /\ UNCHANGED <<rlVars, syncVars, jobVars, healthVars, listVars, connVars, healVars, fnVars>>
    /\ UNCHANGED <<cleanVars, pathVars>>

\* Time passes; the store drops a key whose time to live has run out.
TtlPass ==
    /\ job_ttl > 0 \/ file_ttl > 0
    /\ job_ttl' = Remaining(job_ttl, TtlTick)
    /\ file_ttl' = Remaining(file_ttl, TtlTick)
    /\ ttl_ret' = "none"
    /\ UNCHANGED <<rlVars, syncVars, jobVars, healthVars, listVars, connVars, healVars, fnVars>>
    /\ UNCHANGED <<cleanVars, pathVars>>

\* No record of the job in the store.
IdleTtl ==
    /\ job_ttl = 0
    /\ file_ttl = 0
    /\ ttl_ret = "none"

(***************************************************************************)
(* Part 10. The temp files of one run and their cleanup                    *)
(***************************************************************************)

\* A path under the temp directory: the stem and the suffix of its name.
TempPath(stem, suffix) == [stem |-> stem, suffix |-> suffix]

\* Path.with_suffix and Path.with_stem(stem + '_converted').
with_suffix(p, suffix) == TempPath(p.stem, suffix)
with_stem_converted(p) == TempPath(p.stem \o <<"_converted">>, p.suffix)

\* The input file of a run, as get_safe_path named it, and the two files the
\* pipeline derives from it.
InputPath(ext) == TempPath(<<"uuid">>, ext)
ExtractedPath(ext) == with_suffix(InputPath(ext), ".wav")
ConvertedPath(ext) == with_suffix(with_stem_converted(InputPath(ext)), ".wav")
RunPaths(ext) == {InputPath(ext), ExtractedPath(ext), ConvertedPath(ext)}

\* The stages of the pipeline after the input file is tracked, in order;
\* "none" stands for the end of the try block.
Stages == {"probe", "extract", "convert", "engine", "none"}
StageNo(s) ==
    CASE s = "probe" -> 1
      [] s = "extract" -> 2
      [] s = "convert" -> 3
      [] s = "engine" -> 4
      [] OTHER -> 5

\* The stage whose tool call raises: extraction happens for video files only,
\* conversion for everything but .wav.
FailingStage(ext, fails) ==
    IF fails = "extract" /\ ext \notin ALLOWED_VIDEO_EXTENSIONS THEN "none"
    ELSE IF fails = "convert" /\ ext = ".wav" THEN "none"
    ELSE IF fails \in Stages THEN fails
    ELSE "none"

\* temp_files when the try block is left in stage stop: the input, the
\* extracted audio once extract_audio_from_video has returned, the converted
\* WAV once convert_to_wav has returned.
Tracked(ext, stop) ==
    <<InputPath(ext)>>
    \o (IF ext \in ALLOWED_VIDEO_EXTENSIONS /\ StageNo(stop) > 2
        THEN <<ExtractedPath(ext)>> ELSE <<>>)
    \o (IF ext # ".wav" /\ StageNo(stop) > 3
        THEN <<ConvertedPath(ext)>> ELSE <<>>)

\* The output a tool was writing when the try block was left, which is on
\* disk (when partial) without being tracked.
PartialOutput(ext, stop, partial) ==
    IF ~partial THEN {}
    ELSE IF stop = "extract" /\ ext \in ALLOWED_VIDEO_EXTENSIONS THEN {ExtractedPath(ext)}
    ELSE IF stop = "convert" /\ ext # ".wav" THEN {ConvertedPath(ext)}
    ELSE {}

SeqRange(s) == {s[i] : i \in 1..Len(s)}

\* SecureFileHandler.cleanup_file with the unlink raising for the paths in
\* stuck: the files left on disk, what it returns, and whether an exception
\* leaves it.  Its except clause turns every exception into False.
cleanup_file_unguarded(path, dsk, stuck) ==
    IF path \notin dsk THEN [disk |-> dsk, ret |-> FALSE, raised |-> FALSE]
    ELSE IF path \in stuck THEN [disk |-> dsk, ret |-> FALSE, raised |-> TRUE]
    ELSE [disk |-> dsk \ {path}, ret |-> TRUE, raised |-> FALSE]
cleanup_file(path, dsk, stuck) ==
    IF path \notin dsk THEN [disk |-> dsk, ret |-> FALSE, raised |-> FALSE]
    ELSE IF path \in stuck THEN [disk |-> dsk, ret |-> FALSE, raised |-> FALSE]
    ELSE [disk |-> dsk \ {path}, ret |-> TRUE, raised |-> FALSE]

NoRun == [kind |-> "none"]

\* The uploads of the runs of the synchronous service.
CleanUploads == {f \in Uploads : f.size = 1024 /\ f.content_type = "audio/mpeg"}

\* The stage in which transcribe_file leaves its try block.
SyncStop(file, fails, too_long) ==
    IF fails = "probe" \/ too_long THEN "probe"
    ELSE FailingStage(LowerExt(file.ext), fails)

\* TranscriptionService.transcribe_file up to its finally clause.
CleanRunSync ==
    /\ c_pc = "idle"
    /\ \E file \in CleanUploads, fails \in PipelineFailures, too_long \in BOOLEAN,
          partial \in BOOLEAN :
       \E stuck \in SUBSET RunPaths(LowerExt(file.ext)) :
          LET ext == LowerExt(file.ext)
              saved == validate_upload_file(file) = "none" /\ fails # "save"
              stop == SyncStop(file, fails, too_long)
              tracked == IF saved THEN Tracked(ext, stop) ELSE <<>>
          IN /\ c_run' = [kind |-> "sync", ext |-> ext, stuck |-> stuck,
                          body |-> transcribe_file(file, fails, too_long)]
             /\ c_tracked' = tracked
             /\ c_disk' = IF saved
                          THEN SeqRange(tracked) \cup PartialOutput(ext, stop, partial)
                          ELSE {}
             /\ c_outcome' = transcribe_file(file, fails, too_long)
    /\ c_i' = 1
    /\ c_pc' = "finally"
    /\ UNCHANGED <<rlVars, syncVars, jobVars, healthVars, listVars, connVars, healVars, fnVars>>
    /\ UNCHANGED <<ttlVars, pathVars>>

\* The extensions of the files a task run is given: those the submission
\* endpoint accepted and saved.
TaskExts == {".mp3", ".wav", ".mp4"}

\* What leaves the task body: the soft time limit when it strikes no later
\* than the failing stage, else the retry or the final failure, else nothing.
TaskOutcome(exists, failing, limit, retries) ==
    IF ~exists \/ StageNo(failing) < StageNo(limit)
    THEN (IF retries < max_retries THEN "Retry" ELSE "TranscriptionFailedError")
    ELSE IF limit # "none" THEN "SoftTimeLimitExceeded"
    ELSE "none"

\* transcribe_file_task up to its finally clause.
CleanRunTask ==
    /\ c_pc = "idle"
    /\ \E ext \in TaskExts, exists \in BOOLEAN, fails \in PipelineFailures \ {"save"},
          limit \in Stages, retries \in 0..max_retries, partial \in BOOLEAN :
       \E stuck \in SUBSET RunPaths(ext) :
          LET failing == FailingStage(ext, fails)
              stop == IF StageNo(failing) < StageNo(limit) THEN failing ELSE limit
              tracked == IF exists THEN Tracked(ext, stop) ELSE <<>>
          IN /\ c_run' = [kind |-> "task", ext |-> ext, stuck |-> stuck,
                          body |-> TaskOutcome(exists, failing, limit, retries)]
             /\ c_tracked' = tracked
             /\ c_disk' = IF exists
                          THEN SeqRange(tracked) \cup PartialOutput(ext, stop, partial)
                          ELSE {}
             /\ c_outcome' = TaskOutcome(exists, failing, limit, retries)
    /\ c_i' = 1
    /\ c_pc' = "finally"
    /\ UNCHANGED <<rlVars, syncVars, jobVars, healthVars, listVars, connVars, healVars, fnVars>>
    /\ UNCHANGED <<ttlVars, pathVars>>

\* One iteration of 'for temp_file in temp_files'.  The task wraps the call
\* in try/except; the synchronous service does not, so that an exception
\* leaving cleanup_file would end its loop and replace what the body raised.
CleanupStep ==
    /\ c_pc = "finally"
    /\ c_i <= Len(c_tracked)
    /\ LET r == cleanup_file(c_tracked[c_i], c_disk, c_run.stuck) IN
       /\ c_disk' = r.disk
       /\ IF r.raised /\ c_run.kind = "sync"
          THEN /\ c_outcome' = "OSError"
               /\ c_i' = Len(c_tracked) + 1
          ELSE /\ c_i' = c_i + 1
               /\ UNCHANGED c_outcome
    /\ UNCHANGED <<c_pc, c_run, c_tracked>>
    /\ UNCHANGED <<rlVars, syncVars, jobVars, healthVars, listVars, connVars, healVars, fnVars>>
    /\ UNCHANGED <<ttlVars, pathVars>>

\* The loop is over: the run returns or raises.
CleanupEnd ==
    /\ c_pc = "finally"
    /\ c_i > Len(c_tracked)
    /\ c_pc' = "done"
    /\ UNCHANGED <<c_run, c_tracked, c_disk, c_i, c_outcome>>
    /\ UNCHANGED <<rlVars, syncVars, jobVars, healthVars, listVars, connVars, healVars, fnVars>>
    /\ UNCHANGED <<ttlVars, pathVars>>

IdleClean ==
    /\ c_pc = "idle"
    /\ c_run = NoRun
    /\ c_tracked = <<>>
    /\ c_disk = {}
    /\ c_i = 0
    /\ c_outcome = "none"

(***************************************************************************)
(* Part 11. SecureFileHandler.get_safe_path                                *)
(***************************************************************************)

\* File names are sequences of characters, of at most MaxNameLen characters
\* over NameChars, and the name of the traversal test.
MaxNameLen == 4
NameChars == {".", "/", "a", "B"}
TraversalName ==
    <<".", ".", "/", ".", ".", "/", ".", ".", "/",
      "e", "t", "c", "/", "p", "a", "s", "s", "w", "d">>
FileNames ==
    UNION {[1..k -> NameChars] : k \in 0..MaxNameLen}
    \cup {TraversalName, <<"a", "/", ".", ".", "/", "x", ".", "M", "P", "3">>}

\* str.lower on the characters of the model.
LowerChar(c) ==
    CASE c = "B" -> "b"
      [] c = "M" -> "m"
      [] c = "P" -> "p"
      [] OTHER -> c
Lower(s) == [i \in 1..Len(s) |-> LowerChar(s[i])]

\* str.rfind, counting positions from 1: 0 when c does not occur.
rfind(s, c) ==
    IF \E i \in 1..Len(s) : s[i] = c
    THEN CHOOSE i \in 1..Len(s) : s[i] = c /\ \A k \in (i + 1)..Len(s) : s[k] # c
    ELSE 0

\* os.path.splitext: the extension starts at the last dot of the last path
\* component, unless only dots precede it there.
splitext_any_dot(p) ==
    LET dotIndex == rfind(p, ".") IN
    IF dotIndex > 0 /\ \E i \in 1..(dotIndex - 1) : p[i] # "."
    THEN <<SubSeq(p, 1, dotIndex - 1), SubSeq(p, dotIndex, Len(p))>>
    ELSE <<p, <<>>>>
splitext(p) ==
    LET sepIndex == rfind(p, "/")
        dotIndex == rfind(p, ".")
    IN IF dotIndex > sepIndex /\ \E i \in (sepIndex + 1)..(dotIndex - 1) : p[i] # "."
       THEN <<SubSeq(p, 1, dotIndex - 1), SubSeq(p, dotIndex, Len(p))>>
       ELSE <<p, <<>>>>

\* The components of a path string: the pieces between slashes.
RECURSIVE SplitSlash(_)
SplitSlash(s) ==
    IF \A i \in 1..Len(s) : s[i] # "/" THEN <<s>>
    ELSE LET i == CHOOSE k \in 1..Len(s) : s[k] = "/" /\ \A m \in 1..(k - 1) : s[m] # "/"
         IN <<SubSeq(s, 1, i - 1)>> \o SplitSlash(SubSeq(s, i + 1, Len(s)))

\* pathlib drops empty and "." components when it parses a path.
RECURSIVE DropDots(_)
DropDots(comps) ==
    IF comps = <<>> THEN <<>>
    ELSE IF Head(comps) \in {<<>>, <<".">>} THEN DropDots(Tail(comps))
    ELSE <<Head(comps)>> \o DropDots(Tail(comps))

\* Path.__truediv__: an absolute right operand replaces the left one.
PathJoin(base, name) ==
    IF name # <<>> /\ name[1] = "/" THEN DropDots(SplitSlash(name))
    ELSE base \o DropDots(SplitSlash(name))

\* Path.resolve on a path without symbolic links: ".." removes the component
\* before it; the root is its own parent.
RECURSIVE ResolveFrom(_, _)
ResolveFrom(done, rest) ==
    IF rest = <<>> THEN done
    ELSE IF Head(rest) = <<".", ".">>
         THEN ResolveFrom(IF done = <<>> THEN <<>> ELSE SubSeq(done, 1, Len(done) - 1),
                          Tail(rest))
    ELSE ResolveFrom(Append(done, Head(rest)), Tail(rest))
Resolve(comps) == ResolveFrom(<<>>, comps)

\* str(path) of an absolute path.
RECURSIVE PathStr(_)
PathStr(comps) ==
    IF comps = <<>> THEN <<>>
    ELSE <<"/">> \o Head(comps) \o PathStr(Tail(comps))

\* str.startswith.
StartsWith(s, prefix) ==
    /\ Len(prefix) <= Len(s)
    /\ SubSeq(s, 1, Len(prefix)) = prefix

\* self.base_dir, resolved by __init__, and the values of uuid.uuid4().hex.
base_dir == << <<"t", "m", "p">>, <<"w">> >>
Tokens == {<<"0", "f">>, <<"9", "c">>}

\* get_safe_path: the path returned, or the ValueError raised.
get_safe_path(filename, unique_id) ==
    LET ext == Lower(splitext(filename)[2])
        safe_filename == unique_id \o ext
        file_path == Resolve(PathJoin(base_dir, safe_filename))
    IN IF ~StartsWith(PathStr(file_path), PathStr(base_dir))
       THEN [token |-> unique_id, path |-> <<>>, raised |-> "ValueError"]
       ELSE [token |-> unique_id, path |-> file_path, raised |-> "none"]

NoSafePath == [token |-> <<>>, path |-> <<>>, raised |-> "unset"]

\* One call of get_safe_path on the file name, with a token uuid4 has not
\* produced before.
GetSafePath ==
    /\ \E unique_id \in Tokens \ p_used :
          /\ p_out' = get_safe_path(p_name, unique_id)
          /\ p_used' = p_used \cup {unique_id}
    /\ UNCHANGED p_name
    /\ UNCHANGED <<rlVars, syncVars, jobVars, healthVars, listVars, connVars, healVars, fnVars>>
    /\ UNCHANGED <<ttlVars, cleanVars>>

InitPath ==
    /\ p_name \in FileNames
    /\ p_used = {}
    /\ p_out = NoSafePath

IdlePath ==
    /\ p_name = <<>>
    /\ p_used = {}
    /\ p_out = NoSafePath

IdleAux == IdleTtl /\ IdleClean /\ IdlePath

(***************************************************************************)
(* Part 12. OutputFormatter: SRT and VTT timestamps                        *)
(***************************************************************************)

\* A seconds value is a whole number of ticks of 1/TsUnit second: with
\* TsUnit a power of two, the float arithmetic of the code is exact on it.
TsUnit == 32

\* The seconds values of the model: every tick up to MaxTsTicks, 65.5 s, and
\* values around one minute, one hour and one hundred hours.
MaxTsTicks == 70
TsInputs ==
    0..MaxTsTicks
    \cup {(131 * TsUnit) \div 2, 60 * TsUnit - 1, 3600 * TsUnit - 1,
          3661 * TsUnit + 3, 360000 * TsUnit + 16}

\* str(n) for n >= 0, as a sequence of digit characters.
DigitChar(d) == <<"0", "1", "2", "3", "4", "5", "6", "7", "8", "9">>[d + 1]
RECURSIVE DecimalDigits(_)
DecimalDigits(n) ==
    IF n < 10 THEN <<DigitChar(n)>>
    ELSE Append(DecimalDigits(n \div 10), DigitChar(n % 10))

\* f"{n:0{width}d}": zeros on the left up to width characters, never cut.
RECURSIVE ZeroPad(_, _)
ZeroPad(digits, width) ==
    IF Len(digits) >= width THEN digits ELSE ZeroPad(<<"0">> \o digits, width)
FormatInt(n, width) == ZeroPad(DecimalDigits(n), width)

\* int(seconds), and int((seconds - total_seconds) * 1000): both truncate.
RoundHalfEven(num, den) ==
    LET q == num \div den
        r == num % den
    IN IF 2 * r < den THEN q
       ELSE IF 2 * r > den THEN q + 1
       ELSE IF q % 2 = 0 THEN q ELSE q + 1
total_seconds(ticks) == ticks \div TsUnit
millis_rounded(ticks) == RoundHalfEven((ticks % TsUnit) * 1000, TsUnit)
millis(ticks) == ((ticks % TsUnit) * 1000) \div TsUnit

\* _format_timestamp_srt and _format_timestamp_vtt.
format_timestamp(ticks, sep) ==
    LET hours == total_seconds(ticks) \div 3600
        minutes == (total_seconds(ticks) % 3600) \div 60
        secs == total_seconds(ticks) % 60
    IN FormatInt(hours, 2) \o <<":">> \o FormatInt(minutes, 2) \o <<":">>
       \o FormatInt(secs, 2) \o <<sep>> \o FormatInt(millis(ticks), 3)
format_timestamp_srt(ticks) == format_timestamp(ticks, ",")
format_timestamp_vtt(ticks) == format_timestamp(ticks, ".")

NoTimestamp == [format |-> "none", text |-> <<>>]

\* One call of _format_timestamp_srt or _format_timestamp_vtt.
FormatSrt ==
    /\ ts_out = NoTimestamp
    /\ ts_out' = [format |-> "srt", text |-> format_timestamp_srt(ts_in)]
    /\ UNCHANGED ts_in
    /\ UNCHANGED <<rlVars, syncVars, jobVars, healthVars, listVars, connVars, healVars, auxVars>>
    /\ UNCHANGED <<upVars, valVars, estVars, lateVars>>

FormatVtt ==
    /\ ts_out = NoTimestamp
    /\ ts_out' = [format |-> "vtt", text |-> format_timestamp_vtt(ts_in)]
    /\ UNCHANGED ts_in
    /\ UNCHANGED <<rlVars, syncVars, jobVars, healthVars, listVars, connVars, healVars, auxVars>>
    /\ UNCHANGED <<upVars, valVars, estVars, lateVars>>

InitTs ==
    /\ ts_in \in TsInputs
    /\ ts_out = NoTimestamp

IdleTs ==
    /\ ts_in = 0
    /\ ts_out = NoTimestamp

(***************************************************************************)
(* Part 13. JobService.estimate_processing_time                            *)
(***************************************************************************)

\* Multipliers are counted in units of 1/EstScale.
EstScale == 10000

\* multipliers.get(model, 0.1).
multipliers(model) ==
    CASE model = "tiny" -> 500
      [] model = "base" -> 1000
      [] model = "small" -> 2000
      [] model = "medium" -> 5000
      [] model = "large" -> 10000
      [] model = "large-v3" -> 10000
      [] OTHER -> 1000

\* if settings.whisper_device == "cuda": multiplier *= 0.3
multiplier(model, device) ==
    IF device = "cuda" THEN (multipliers(model) * 3) \div 10 ELSE multipliers(model)

\* int(x) and round(x) for x = num / den >= 0.
py_round(num, den) == RoundHalfEven(num, den)
py_int(num, den) == num \div den

estimate_processing_time(duration, model, device) ==
    py_int(duration * multiplier(model, device), EstScale)

\* The durations (whole seconds), model names and devices of the model.
MaxDuration == 25
EstDurations == 0..MaxDuration \cup {600}
EstModels == {"tiny", "base", "small", "medium", "large", "large-v3", "turbo"}
EstDevices == {"cpu", "cuda"}

NoEstimate == -1

\* One call of estimate_processing_time.
Estimate ==
    /\ est_out = NoEstimate
    /\ est_out' = estimate_processing_time(est_in.duration, est_in.model, est_in.device)
    /\ UNCHANGED est_in
    /\ UNCHANGED <<rlVars, syncVars, jobVars, healthVars, listVars, connVars, healVars, auxVars>>
    /\ UNCHANGED <<upVars, valVars, tsVars, lateVars>>

InitEst ==
    /\ est_in \in [duration : EstDurations, model : EstModels, device : EstDevices]
    /\ est_out = NoEstimate

IdleEst ==
    /\ est_in = [duration |-> 0, model |-> "base", device |-> "cpu"]
    /\ est_out = NoEstimate

(***************************************************************************)
(* Part 14. validate_upload_file and the upload's stream position          *)
(***************************************************************************)

\* How many bytes validate_upload_file reads for the magic-byte check.
header_size == 32

\* Where the stream of an upload stands when validation starts.
StartPositions == {0, 8}

Min(a, b) == IF a < b THEN a ELSE b

\* The stream position after file.file.seek(0, 2); tell(); seek(0), and
\* after file.read(32) and file.seek(0).
tell_at_end(file) == file.size
pos_after_size_probe(file) == 0
pos_after_header_read(file) == Min(header_size, file.size)
pos_after_header_probe(file) == 0

\* validate_upload_file: what it raises or returns, and where it leaves the
\* stream.  The extension and MIME checks do not touch the stream.
validate_upload_file_call(file) ==
    LET raised == validate_upload_file(file)
        untouched == \/ validate_file_extension(file.ext) # "none"
                     \/ validate_mime_type(file.content_type) # "none"
        probed == validate_file_size(tell_at_end(file)) = "none"
    IN [raised |-> raised,
        file_ext |-> IF raised = "none" THEN LowerExt(file.ext) ELSE "",
        file_size |-> IF raised = "none" THEN tell_at_end(file) ELSE 0,
        pos |-> IF untouched THEN file.pos
                ELSE IF probed THEN pos_after_header_probe(file)
                ELSE pos_after_size_probe(file)]

NoUpload == [ext |-> "", content_type |-> "", size |-> 0, header |-> <<>>, pos |-> 0]
NoValidation == [raised |-> "unset", file_ext |-> "", file_size |-> 0, pos |-> 0]

\* One call of validate_upload_file.
ValidateUpload ==
    /\ v_out = NoValidation
    /\ v_out' = validate_upload_file_call(v_file)
    /\ UNCHANGED v_file
    /\ UNCHANGED <<rlVars, syncVars, jobVars, healthVars, listVars, connVars, healVars, auxVars>>
    /\ UNCHANGED <<upVars, tsVars, estVars, lateVars>>

InitValidate ==
    /\ v_file \in [ext : UploadExts, content_type : UploadMimes, size : UploadSizes,
                   header : UploadHeaders, pos : StartPositions]
    /\ v_out = NoValidation

IdleValidate ==
    /\ v_file = NoUpload
    /\ v_out = NoValidation

(***************************************************************************)
(* Part 15. SecureFileHandler: save_upload and cleanup_file on a file      *)
(* system                                                                  *)
(***************************************************************************)

\* Upload contents are counted in blocks of 4096 bytes, each block one of
\* BlockValues; save_upload reads 8192 bytes, two blocks, at a time.
chunk_blocks == 2
MaxBlocks == 3
BlockValues == {"x", "y"}
UploadContents == UNION {[1..k -> BlockValues] : k \in 0..MaxBlocks}
UploadNames == {<<"a", ".", "B">>, TraversalName}

\* The paths of the model besides those save_upload writes: a directory and
\* a missing name inside the base directory, a file elsewhere, the same file
\* named through the base directory, and a file in a directory next to the
\* base directory whose name starts with the base directory's name.
InsideDir == Append(base_dir, <<"d">>)
InsideMissing == Append(base_dir, <<"n">>)
OutsideFile == << <<"t", "m", "p">>, <<"o">>, <<"x">> >>
OutsideViaBase == base_dir \o << <<".", ".">>, <<"o">>, <<"x">> >>
SiblingFile == << <<"t", "m", "p">>, <<"w", "2">>, <<"x">> >>
SavedPaths == {get_safe_path(n, t).path : n \in UploadNames, t \in Tokens}
FsPaths == SavedPaths \cup {InsideDir, InsideMissing, OutsideFile, SiblingFile}
CleanupTargets == FsPaths \cup {OutsideViaBase}

Missing == [kind |-> "missing", data |-> <<>>]
Directory == [kind |-> "dir", data |-> <<>>]
RegularFile(data) == [kind |-> "file", data |-> data]

\* 'while chunk := await file.read(8192): await f.write(chunk)': what has
\* been written after at most max_writes writes, reading from position pos.
RECURSIVE WriteChunks(_, _, _)
WriteChunks(data, pos, max_writes) ==
    IF pos >= Len(data) \/ max_writes = 0 THEN <<>>
    ELSE SubSeq(data, pos + 1, Min(pos + chunk_blocks, Len(data)))
         \o WriteChunks(data, Min(pos + chunk_blocks, Len(data)), max_writes - 1)

\* The number of writes a complete save makes.
NumWrites(data, pos) == (Len(data) - pos + chunk_blocks - 1) \div chunk_blocks

\* save_upload with the fail_at-th write raising (0: none does): the file
\* system it leaves, the path and the exception.  The except clause unlinks
\* what was written and raises again.
save_upload(files, file, unique_id, fail_at) ==
    LET file_path == get_safe_path(file.filename, unique_id).path IN
    IF fail_at = 0
    THEN [fs |-> [files EXCEPT ![file_path] =
                     RegularFile(WriteChunks(file.data, file.pos, NumWrites(file.data, file.pos)))],
          path |-> file_path, raised |-> "none"]
    ELSE [fs |-> [files EXCEPT ![file_path] = Missing],
          path |-> file_path, raised |-> "Exception"]

\* cleanup_file: exists() and is_file(), then the test that the resolved
\* path, as a string, starts with the base directory's, then unlink.
cleanup_file_at(files, file_path) ==
    LET target == Resolve(file_path) IN
    IF files[target].kind = "file" /\ StartsWith(PathStr(target), PathStr(base_dir))
    THEN [fs |-> [files EXCEPT ![target] = Missing], ret |-> TRUE]
    ELSE [fs |-> files, ret |-> FALSE]

NoFile == [filename |-> <<>>, data |-> <<>>, pos |-> 0]
NoCall == [op |-> "none", path |-> <<>>, ret |-> FALSE, raised |-> "none"]

\* One save_upload of the upload, with a token uuid4 has not produced.
SaveUpload ==
    /\ up_path = NoPath
    /\ \E unique_id \in Tokens, fail_at \in 0..NumWrites(up_file.data, up_file.pos) :
          LET r == save_upload(fs, up_file, unique_id, fail_at) IN
          /\ fs' = r.fs
          /\ up_path' = r.path
          /\ up_ret' = [op |-> "save", path |-> r.path, ret |-> FALSE, raised |-> r.raised]
    /\ UNCHANGED up_file
    /\ UNCHANGED <<rlVars, syncVars, jobVars, healthVars, listVars, connVars, healVars, auxVars>>
    /\ UNCHANGED <<valVars, tsVars, estVars, lateVars>>

\* One cleanup_file call on a path.
CleanupFile(file_path) ==
    /\ LET r == cleanup_file_at(fs, file_path) IN
       /\ fs' = r.fs
       /\ up_ret' = [op |-> "cleanup", path |-> file_path, ret |-> r.ret, raised |-> "none"]
    /\ UNCHANGED <<up_file, up_path>>
    /\ UNCHANGED <<rlVars, syncVars, jobVars, healthVars, listVars, connVars, healVars, auxVars>>
    /\ UNCHANGED <<valVars, tsVars, estVars, lateVars>>

\* A fresh UploadFile over some content, and the files that are there.
InitUpload ==
    /\ fs = [p \in FsPaths |->
                IF p = InsideDir THEN Directory
                ELSE IF p \in {OutsideFile, SiblingFile} THEN RegularFile(<<"x">>)
                ELSE Missing]
    /\ up_file \in [filename : UploadNames, data : UploadContents, pos : {0}]
    /\ up_path = NoPath
    /\ up_ret = NoCall

IdleUpload ==
    /\ fs = <<>>
    /\ up_file = NoFile
    /\ up_path = NoPath
    /\ up_ret = NoCall

(***************************************************************************)
(* Part 16. update_job's status stamps (app/core/redis_client.py)          *)
(***************************************************************************)

MaxUpdateTime == 3
NoStamp == 0
UpdateStatuses == {"none", "processing", "completed", "failed", "cancelled"}
UpdateProgress == {NoProgress, 0, 50, 100}

\* The job_info create_job stores: no progress and no start, completion or
\* failure time yet.
CreatedJob ==
    [status |-> "pending", progress |-> NoProgress,
     started_at |-> NoStamp, completed_at |-> NoStamp, failed_at |-> NoStamp]

\* update_job's "Update fields" block for the status and progress arguments:
\* the status branch first, then "if progress is not None".
update_job_stamps(data, status, progress, utcnow) ==
    LET d1 == IF status = "none" THEN data
              ELSE IF status = "processing" /\ data.started_at = NoStamp
              THEN [data EXCEPT !.status = status, !.started_at = utcnow]
              ELSE IF status = "completed"
              THEN [data EXCEPT !.status = status, !.completed_at = utcnow,
                                !.progress = 100]
              ELSE IF status = "failed"
              THEN [data EXCEPT !.status = status, !.failed_at = utcnow]
              ELSE [data EXCEPT !.status = status]
    IN  IF progress = NoProgress THEN d1 ELSE [d1 EXCEPT !.progress = progress]

NoArgs == [status |-> "none", progress |-> NoProgress]

\* One update_job call on the existing record, some time after the last one.
UpdateJobCall ==
    /\ u_now < MaxUpdateTime
    /\ u_now' = u_now + 1
    /\ \E status \in UpdateStatuses, progress \in UpdateProgress :
        /\ u_args' = [status |-> status, progress |-> progress]
        /\ u_data' = update_job_stamps(u_data, status, progress, u_now')
    /\ UNCHANGED <<baseVars, cacheVars, delVars, subVars, lifeVars>>

InitUpdate ==
    /\ u_data = CreatedJob
    /\ u_now = 0
    /\ u_args = NoArgs

IdleUpdate ==
    /\ u_data = CreatedJob
    /\ u_now = 0
    /\ u_args = NoArgs

(***************************************************************************)
(* Part 17. The model cache (app/core/transcription/engine.py)             *)
(***************************************************************************)

MaxModelCalls == 3
Threads == {"t1", "t2"}
NoThread == "none"
NoModel == 0

\* Names as lists of the pieces between their underscores.
ModelNames == {<<"base">>, <<"tiny">>}
ModelDevices == {<<"cpu">>}
ComputeTypes == {<<"int8">>, <<"int8", "float16">>}
ModelArgs == ModelNames \X ModelDevices \X ComputeTypes

\* cache_key = f"{model_name}_{device}_{compute_type}"
cache_key(model_name, device, compute_type) == model_name \o device \o compute_type
KeyOf(args) == cache_key(args[1], args[2], args[3])
CacheKeys == {KeyOf(args) : args \in ModelArgs}

\* "with self._lock": a thread enters when no thread holds the lock.
LockIgnored(t) == TRUE
LockFree(t) == m_lock = NoThread

\* A thread calls get_model.
GetModelCall(t, args) ==
    /\ m_pc[t] = "idle"
    /\ m_calls < MaxModelCalls
    /\ m_calls' = m_calls + 1
    /\ m_call' = [m_call EXCEPT ![t] = args]
    /\ m_pc' = [m_pc EXCEPT ![t] = "acquire"]
    /\ UNCHANGED <<m_lock, m_models, m_ret, m_next, m_loaded, m_returned>>
    /\ UNCHANGED <<baseVars, updVars, delVars, subVars, lifeVars>>

\* It takes the lock and tests "cache_key not in self._models".
GetModelEnter(t) ==
    /\ m_pc[t] = "acquire"
    /\ LockFree(t)
    /\ m_lock' = t
    /\ m_pc' = [m_pc EXCEPT ![t] =
                  IF m_models[KeyOf(m_call[t])] = NoModel THEN "load" ELSE "return"]
    /\ UNCHANGED <<m_models, m_call, m_ret, m_next, m_calls, m_loaded, m_returned>>
    /\ UNCHANGED <<baseVars, updVars, delVars, subVars, lifeVars>>

\* WhisperModel(...) returns a new instance, which is stored under the key, or
\* raises, which get_model re-raises as ModelLoadError, leaving the with block.
GetModelLoad(t) ==
    /\ m_pc[t] = "load"
    /\ \E ok \in BOOLEAN :
        IF ok
        THEN /\ m_models' = [m_models EXCEPT ![KeyOf(m_call[t])] = m_next]
             /\ m_next' = m_next + 1
             /\ m_loaded' = [m_loaded EXCEPT ![KeyOf(m_call[t])] = @ + 1]
             /\ m_pc' = [m_pc EXCEPT ![t] = "return"]
             /\ UNCHANGED <<m_lock, m_ret>>
        ELSE /\ m_ret' = [m_ret EXCEPT ![t] = [raised |-> "ModelLoadError", model |-> NoModel]]
             /\ m_lock' = NoThread
             /\ m_pc' = [m_pc EXCEPT ![t] = "idle"]
             /\ UNCHANGED <<m_models, m_next, m_loaded>>
    /\ UNCHANGED <<m_call, m_calls, m_returned>>
    /\ UNCHANGED <<baseVars, updVars, delVars, subVars, lifeVars>>

\* "return self._models[cache_key]", leaving the with block.
GetModelReturn(t) ==
    /\ m_pc[t] = "return"
    /\ LET model == m_models[KeyOf(m_call[t])] IN
       /\ m_ret' = [m_ret EXCEPT ![t] = [raised |-> "none", model |-> model]]
       /\ m_returned' = [m_returned EXCEPT ![KeyOf(m_call[t])] = @ \cup {model}]
    /\ m_lock' = NoThread
    /\ m_pc' = [m_pc EXCEPT ![t] = "idle"]
    /\ UNCHANGED <<m_models, m_call, m_next, m_calls, m_loaded>>
    /\ UNCHANGED <<baseVars, updVars, delVars, subVars, lifeVars>>

NoModelCall == <<>>
NoModelRet == [raised |-> "unset", model |-> NoModel]

\* A process in which no model has been loaded yet.
InitCache ==
    /\ m_lock = NoThread
    /\ m_models = [k \in CacheKeys |-> NoModel]
    /\ m_pc = [t \in Threads |-> "idle"]
    /\ m_call = [t \in Threads |-> NoModelCall]
    /\ m_ret = [t \in Threads |-> NoModelRet]
    /\ m_next = 1
    /\ m_calls = 0
    /\ m_loaded = [k \in CacheKeys |-> 0]
    /\ m_returned = [k \in CacheKeys |-> {}]

IdleCache ==
    /\ m_lock = NoThread
    /\ m_models = [k \in CacheKeys |-> NoModel]
    /\ m_pc = [t \in Threads |-> "idle"]
    /\ m_call = [t \in Threads |-> NoModelCall]
    /\ m_ret = [t \in Threads |-> NoModelRet]
    /\ m_next = 1
    /\ m_calls = 0
    /\ m_loaded = [k \in CacheKeys |-> 0]
    /\ m_returned = [k \in CacheKeys |-> {}]

(***************************************************************************)
(* Part 18. JobService.delete_job, statement by statement                  *)
(* (app/services/job_service.py, app/core/redis_client.py)                 *)
(***************************************************************************)

\* "file_path = self.redis_client.get_job_file_path(job_id)": the value of the
\* file-path record, or None when there is none or the store raised, which
\* get_job_file_path logs and turns into None.
get_job_file_path(job) == IF redisUp THEN filekey[job] ELSE NoPath

\* "self.client.delete(key)": the record under the key is gone.
delete_key_kept(table, job, absent) == table
delete_key(table, job, absent) == [table EXCEPT ![job] = absent]

DeleteGetPath(job) ==
    /\ a_pc = "idle"
    /\ a_pc' = "del_cleanup"
    /\ a_job' = job
    /\ a_path' = get_job_file_path(job)
    /\ d_ret' = "none"
    /\ UNCHANGED <<a_status, a_read, resp, submits, cancels, nextJob, nextFile>>
    /\ UNCHANGED <<envVars, storeVars, workerVars, histVars>>
    /\ UNCHANGED <<rlVars, syncVars, healthVars, listVars, connVars, healVars, auxVars>>
    /\ UNCHANGED <<upVars, valVars, tsVars, estVars, updVars, cacheVars, subVars, lifeVars>>

\* "if file_path: file_handler.cleanup_file(Path(file_path))": the file is
\* unlinked, or the unlink raises and cleanup_file returns False; the return
\* value is not looked at.
DeleteCleanup ==
    /\ a_pc = "del_cleanup"
    /\ a_pc' = "del_job_key"
    /\ IF a_path = NoPath
       THEN UNCHANGED <<disk, d_ret>>
       ELSE \E stuck \in SUBSET {a_path} :
              LET done == cleanup_file(a_path, disk, stuck) IN
              /\ disk' = done.disk
              /\ d_ret' = IF done.ret THEN "True" ELSE "False"
    /\ UNCHANGED <<a_job, a_path, a_status, a_read, resp, submits, cancels, nextJob, nextFile>>
    /\ UNCHANGED <<envVars, store, filekey, queue, revoking, w_revoked, workerVars, histVars>>
    /\ UNCHANGED <<rlVars, syncVars, healthVars, listVars, connVars, healVars, auxVars>>
    /\ UNCHANGED <<upVars, valVars, tsVars, estVars, updVars, cacheVars, subVars, lifeVars>>

\* RedisClient.delete_job, "self.client.delete(self._job_key(job_id))": a store
\* that raises makes delete_job return False and the route answer 404.
DeleteJobKey ==
    /\ a_pc = "del_job_key"
    /\ IF redisUp
       THEN /\ store' = delete_key(store, a_job, NoRec)
            /\ a_pc' = "del_file_key"
            /\ UNCHANGED <<resp, a_path>>
       ELSE /\ resp' = Response("delete", a_job, 404, "job_not_found", "none")
            /\ a_pc' = "idle"
            /\ a_path' = NoPath
            /\ UNCHANGED store
    /\ UNCHANGED <<a_job, a_status, a_read, submits, cancels, nextJob, nextFile>>
    /\ UNCHANGED <<envVars, filekey, disk, queue, revoking, w_revoked, workerVars, histVars>>
    /\ UNCHANGED <<rlVars, syncVars, healthVars, listVars, connVars, healVars, auxVars>>
    /\ UNCHANGED <<upVars, valVars, tsVars, estVars, updVars, cacheVars, delVars, subVars, lifeVars>>

\* "self.client.delete(self._job_file_key(job_id))" and "return True", which
\* the route answers with 200.
DeleteFileKey ==
    /\ a_pc = "del_file_key"
    /\ IF redisUp
       THEN /\ filekey' = delete_key(filekey, a_job, NoPath)
            /\ resp' = Response("delete", a_job, 200, "none", "none")
       ELSE /\ resp' = Response("delete", a_job, 404, "job_not_found", "none")
            /\ UNCHANGED filekey
    /\ a_pc' = "idle"
    /\ a_path' = NoPath
    /\ UNCHANGED <<a_job, a_status, a_read, submits, cancels, nextJob, nextFile>>
    /\ UNCHANGED <<envVars, store, disk, queue, revoking, w_revoked, workerVars, histVars>>
    /\ UNCHANGED <<rlVars, syncVars, healthVars, listVars, connVars, healVars, auxVars>>
    /\ UNCHANGED <<upVars, valVars, tsVars, estVars, updVars, cacheVars, delVars, subVars, lifeVars>>

IdleDelete == d_ret = "none"

IdleSubmit == s_too_long = FALSE

(***************************************************************************)
(* Part 19. The application's lifespan (app/main.py)                       *)
(***************************************************************************)

\* "def connect(self, retries: int = 3, delay: int = 2)": lifespan calls
\* redis_client.connect() without arguments.
default_retries == 3
default_delay == 2

\* Startup with async enabled: scheduler.start(), then redis_client.connect();
\* no connection is cached yet, so the loop is entered.
LifespanStart ==
    /\ l_pc = "down"
    /\ IF enable_async
       THEN /\ l_scheduler' = TRUE
            /\ l_pc' = "connecting"
            /\ conn_pc' = "trying"
            /\ conn_retries' = default_retries
            /\ conn_tried' = 0
            /\ conn_result' = "pending"
       ELSE /\ l_pc' = "preloading"
            /\ UNCHANGED <<l_scheduler, connVars>>
    /\ UNCHANGED l_slept
    /\ UNCHANGED <<rlVars, syncVars, jobVars, healthVars, listVars, healVars, auxVars>>
    /\ UNCHANGED <<upVars, valVars, tsVars, estVars, updVars, cacheVars, delVars, subVars>>

\* One pass of connect's loop at startup: a ping that answers ends it; one
\* that fails is followed by time.sleep(delay) and the next pass, or after the
\* last pass by the fall-through, and startup goes on without the store.
LifespanConnectAttempt ==
    /\ l_pc = "connecting"
    /\ conn_tried' = conn_tried + 1
    /\ IF redisUp
       THEN /\ client' = TRUE
            /\ available' = TRUE
            /\ conn_pc' = "done"
            /\ conn_result' = "connected"
            /\ l_pc' = "preloading"
            /\ UNCHANGED l_slept
       ELSE IF MoreAttempts(conn_tried + 1, conn_retries)
       THEN /\ client' = TRUE
            /\ l_slept' = l_slept + default_delay
            /\ UNCHANGED <<available, conn_pc, conn_result, l_pc>>
       ELSE /\ client' = FALSE
            /\ available' = FALSE
            /\ conn_pc' = "done"
            /\ conn_result' = "none"
            /\ l_pc' = "preloading"
            /\ UNCHANGED l_slept
    /\ UNCHANGED <<enable_async, redisUp, conn_retries, l_scheduler>>
    /\ UNCHANGED <<rlVars, syncVars, storeVars, apiVars, workerVars, histVars>>
    /\ UNCHANGED <<healthVars, listVars, healVars, auxVars>>
    /\ UNCHANGED <<upVars, valVars, tsVars, estVars, updVars, cacheVars, delVars, subVars>>

\* preload_model of the default model: it loads, or the error is logged and
\* the model is left for the first request.
LifespanPreload ==
    /\ l_pc = "preloading"
    /\ l_pc' = "up"
    /\ \E loads \in BOOLEAN : model_loaded' = loads
    /\ UNCHANGED <<temp_dir_ok, health, l_scheduler, l_slept>>
    /\ UNCHANGED <<rlVars, syncVars, jobVars, listVars, connVars, healVars, auxVars>>
    /\ UNCHANGED <<upVars, valVars, tsVars, estVars, updVars, cacheVars, delVars, subVars>>

\* While the application is up the scheduler fires redis_health_check and
\* requests call is_connected.
LifespanHealthCheck ==
    /\ l_pc = "up"
    /\ l_scheduler
    /\ HealthCheck

LifespanIsConnected ==
    /\ l_pc = "up"
    /\ IsConnected

\* Shutdown with async enabled: scheduler.shutdown(), redis_client.disconnect().
LifespanShutdown ==
    /\ l_pc = "up"
    /\ l_pc' = "stopped"
    /\ IF enable_async
       THEN /\ l_scheduler' = FALSE
            /\ client' = FALSE
       ELSE UNCHANGED <<l_scheduler, client>>
    /\ UNCHANGED <<enable_async, redisUp, available, l_slept>>
    /\ UNCHANGED <<rlVars, syncVars, storeVars, apiVars, workerVars, histVars>>
    /\ UNCHANGED <<healthVars, listVars, connVars, healVars, auxVars>>
    /\ UNCHANGED <<upVars, valVars, tsVars, estVars, updVars, cacheVars, delVars, subVars>>

IdleLifespan ==
    /\ l_pc = "down"
    /\ l_scheduler = FALSE
    /\ l_slept = 0

IdleLate == IdleUpdate /\ IdleCache /\ IdleDelete /\ IdleSubmit /\ IdleLifespan

IdleFn == IdleUpload /\ IdleValidate /\ IdleTs /\ IdleEst /\ IdleLate

IdleExt == IdleHealth /\ IdleList /\ IdleConnect /\ IdleHeal /\ IdleAux /\ IdleFn
IdleBase ==
    /\ IdleRL /\ IdleSync /\ IdleEnv /\ IdleJobs
    /\ IdleHealth /\ IdleList /\ IdleConnect /\ IdleHeal /\ IdleAux
    /\ IdleUpload /\ IdleValidate /\ IdleTs /\ IdleEst

\* The rate limiter alone.
RLInit == InitRL /\ IdleSync /\ IdleEnv /\ IdleJobs /\ IdleExt
SpecRL == RLInit /\ [][NextRL]_vars

\* The synchronous endpoint alone.
SyncInit == IdleRL /\ InitSync /\ IdleEnv /\ IdleJobs /\ IdleExt
SpecSync == SyncInit /\ [][Transcribe]_vars

\* The submission endpoint with a store that comes and goes.
SubmitInit == IdleRL /\ IdleSync /\ InitEnv /\ IdleJobs /\ IdleExt
SubmitNext ==
    \/ SubmitCheck
    \/ SubmitCreateJob
    \/ SubmitCreateFileKey
    \/ SubmitEnqueue
    \/ \E job \in JobIds : GetStatus(job)
    \/ RedisDown
    \/ RedisUp
    \/ HealthCheck
SpecSubmit == SubmitInit /\ [][SubmitNext]_vars

\* The same, with the scheduler firing the reconnection job again and again.
SpecHeal == SubmitInit /\ [][SubmitNext]_vars /\ WF_vars(HealthCheck)

\* The job life cycle: the API process and a worker, the store reachable.
Init == IdleRL /\ IdleSync /\ IdleEnv /\ IdleJobs /\ IdleExt
Next ==
    \/ SubmitCheck
    \/ SubmitCreateJob
    \/ SubmitCreateFileKey
    \/ SubmitEnqueue
    \/ \E job \in JobIds : GetStatus(job)
    \/ \E job \in JobIds : CancelGetJob(job)
    \/ CancelUpdateGet
    \/ CancelUpdateSet
    \/ \E msg \in queue : WorkerReceive(msg)
    \/ WorkerUpdateGet
    \/ WorkerUpdateSet
    \/ WorkerCheckFile
    \/ WorkerTool
    \/ SoftTimeLimit
    \/ WorkerEnd
    \/ \E id \in revoking : RevokeReceived(id)
Spec == Init /\ [][Next]_vars

\* The job life cycle with deletions.
DeleteNext ==
    \/ Next
    \/ \E job \in JobIds : DeleteJob(job)
SpecDelete == Init /\ [][DeleteNext]_vars

\* Calls of connect against a store that comes and goes.
ConnectInit == IdleRL /\ IdleSync /\ InitConnect /\ IdleJobs /\ IdleExt
ConnectNext ==
    \/ ConnectCall
    \/ ConnectAttempt
    \/ Disconnect
    \/ IsConnected
    \/ RedisDown
    \/ RedisUp
SpecConnect == ConnectInit /\ [][ConnectNext]_vars

\* The health endpoints, with a store that comes and goes.
HealthInit == IdleRL /\ IdleSync /\ InitEnv /\ IdleJobs /\ InitHealth /\ IdleList /\ IdleConnect /\ IdleHeal /\ IdleAux /\ IdleFn
HealthNext ==
    \/ GetHealth
    \/ GetReady
    \/ ModelLoaded
    \/ TempDirChange
    \/ SubmitCheck
    \/ SubmitCreateJob
    \/ SubmitCreateFileKey
    \/ SubmitEnqueue
    \/ RedisDown
    \/ RedisUp
    \/ HealthCheck
SpecHealth == HealthInit /\ [][HealthNext]_vars

\* Job listing over a store of jobs.
ListInit == IdleRL /\ IdleSync /\ IdleEnv /\ IdleJobs /\ IdleHealth /\ InitList /\ IdleConnect /\ IdleHeal /\ IdleAux /\ IdleFn
SpecList == ListInit /\ [][ListJobs]_vars

\* One job's two records over time.
TtlInit == IdleRL /\ IdleSync /\ IdleEnv /\ IdleJobs /\ IdleExt
TtlNext ==
    \/ TtlCreateJob
    \/ TtlUpdateJob
    \/ TtlPass
SpecTtl == TtlInit /\ [][TtlNext]_vars

\* One run of the synchronous service or of the task, and its cleanup.
CleanInit == IdleRL /\ IdleSync /\ IdleEnv /\ IdleJobs /\ IdleExt
CleanNext ==
    \/ CleanRunSync
    \/ CleanRunTask
    \/ CleanupStep
    \/ CleanupEnd
SpecClean == CleanInit /\ [][CleanNext]_vars

\* Safe paths for every file name.
PathInit ==
    /\ IdleRL /\ IdleSync /\ IdleEnv /\ IdleJobs
    /\ IdleHealth /\ IdleList /\ IdleConnect /\ IdleHeal
    /\ IdleTtl /\ IdleClean /\ InitPath /\ IdleFn
SpecPath == PathInit /\ [][GetSafePath]_vars

\* Timestamps of every seconds value.
TsInit ==
    /\ IdleRL /\ IdleSync /\ IdleEnv /\ IdleJobs
    /\ IdleHealth /\ IdleList /\ IdleConnect /\ IdleHeal /\ IdleAux
    /\ IdleUpload /\ IdleValidate /\ InitTs /\ IdleEst /\ IdleLate
TsNext ==
    \/ FormatSrt
    \/ FormatVtt
SpecTs == TsInit /\ [][TsNext]_vars

\* Estimates for every duration, model name and device.
EstInit ==
    /\ IdleRL /\ IdleSync /\ IdleEnv /\ IdleJobs
    /\ IdleHealth /\ IdleList /\ IdleConnect /\ IdleHeal /\ IdleAux
    /\ IdleUpload /\ IdleValidate /\ IdleTs /\ InitEst /\ IdleLate
SpecEst == EstInit /\ [][Estimate]_vars

\* An upload saved and files cleaned up.
UploadInit ==
    /\ IdleRL /\ IdleSync /\ IdleEnv /\ IdleJobs
    /\ IdleHealth /\ IdleList /\ IdleConnect /\ IdleHeal /\ IdleAux
    /\ InitUpload /\ IdleValidate /\ IdleTs /\ IdleEst /\ IdleLate
UploadNext ==
    \/ SaveUpload
    \/ \E file_path \in CleanupTargets : CleanupFile(file_path)
SpecUpload == UploadInit /\ [][UploadNext]_vars

\* Validation of every upload.
ValidateInit ==
    /\ IdleRL /\ IdleSync /\ IdleEnv /\ IdleJobs
    /\ IdleHealth /\ IdleList /\ IdleConnect /\ IdleHeal /\ IdleAux
    /\ IdleUpload /\ InitValidate /\ IdleTs /\ IdleEst /\ IdleLate
SpecValidate == ValidateInit /\ [][ValidateUpload]_vars

\* The job life cycle without cancellations and deletions, the worker always
\* going on with the task it has or with a queued one (a worker process that
\* is up executes its tasks; the soft time limit may or may not expire).
RunStep ==
    \/ \E msg \in queue : WorkerReceive(msg)
    \/ WorkerUpdateGet
    \/ WorkerUpdateSet
    \/ WorkerCheckFile
    \/ WorkerTool
    \/ WorkerEnd
LiveNext ==
    \/ SubmitCheck
    \/ SubmitCreateJob
    \/ SubmitCreateFileKey
    \/ SubmitEnqueue
    \/ \E job \in JobIds : GetStatus(job)
    \/ RunStep
    \/ SoftTimeLimit
SpecLive == Init /\ [][LiveNext]_vars /\ WF_vars(RunStep)

\* Submissions and deletions, no task running, with a store that comes and
\* goes and files whose unlink may fail.
DeleteStepsNext ==
    \/ SubmitCheck
    \/ SubmitCreateJob
    \/ SubmitCreateFileKey
    \/ SubmitEnqueue
    \/ \E job \in JobIds : DeleteGetPath(job)
    \/ DeleteCleanup
    \/ DeleteJobKey
    \/ DeleteFileKey
    \/ RedisDown
    \/ RedisUp
SpecDeleteSteps == Init /\ [][DeleteStepsNext]_vars

\* The application from startup to shutdown, with either setting of
\* enable_async and a store that comes and goes.
LifespanInit ==
    /\ IdleRL /\ IdleSync /\ InitConnect2 /\ IdleJobs
    /\ model_loaded = FALSE /\ temp_dir_ok = TRUE /\ health = NoHealth
    /\ IdleList /\ IdleConnect /\ IdleHeal /\ IdleAux /\ IdleFn
LifespanNext ==
    \/ LifespanStart
    \/ LifespanConnectAttempt
    \/ LifespanPreload
    \/ LifespanHealthCheck
    \/ LifespanIsConnected
    \/ LifespanShutdown
    \/ RedisDown
    \/ RedisUp
SpecLifespan == LifespanInit /\ [][LifespanNext]_vars

\* update_job calls on one job record.
UpdateInit == IdleBase /\ InitUpdate /\ IdleCache /\ IdleDelete /\ IdleSubmit /\ IdleLifespan
SpecUpdate == UpdateInit /\ [][UpdateJobCall]_vars

\* Threads calling get_model in any interleaving.
CacheInit == IdleBase /\ IdleUpdate /\ InitCache /\ IdleDelete /\ IdleSubmit /\ IdleLifespan
CacheNext ==
    \/ \E t \in Threads, args \in ModelArgs : GetModelCall(t, args)
    \/ \E t \in Threads : GetModelEnter(t)
    \/ \E t \in Threads : GetModelLoad(t)
    \/ \E t \in Threads : GetModelReturn(t)
SpecCache == CacheInit /\ [][CacheNext]_vars

\* C1: a call of client c at time t is accepted if and only if fewer than N
\* calls of that same client were accepted in the 60 seconds before t; calls
\* of other clients never count.
AcceptedBefore(i) ==
    {k \in 1..(i - 1) : /\ rlCalls[k].client = rlCalls[i].client
                        /\ rlCalls[k].outcome = "accepted"
                        /\ rlCalls[k].t > rlCalls[i].t - 60}
C1_SlidingWindow ==
    \A i \in DOMAIN rlCalls :
        rlCalls[i].outcome # "bypass" =>
            (rlCalls[i].outcome = "accepted"
                <=> Cardinality(AcceptedBefore(i)) < requests_per_minute)

\* C1 witness: a client was rejected (its (N+1)-th call within the window) and
\* a later call of the same client was accepted again.
C1_Witness ==
    \E j, k \in DOMAIN rlCalls :
        /\ j < k
        /\ rlCalls[j].client = rlCalls[k].client
        /\ rlCalls[j].outcome = "rate_limit_exceeded"
        /\ rlCalls[k].outcome = "accepted"

\* C2: a rejected check adds no timestamp to the client's ledger (only entries
\* older than 60 seconds are removed) and touches no other client's ledger, a
\* bypassed check (rate limiting disabled) leaves the ledger alone, and every
\* ledger entry is the time of an accepted call.
C2_RejectedKeepsSlot ==
    [][Len(rlCalls') = Len(rlCalls) + 1 =>
        LET call == rlCalls'[Len(rlCalls')] IN
        /\ call.outcome = "rate_limit_exceeded" =>
              /\ requests'[call.client] =
                     SelectSeq(requests[call.client], LAMBDA r : r > now - 60)
              /\ \A c \in Clients \ {call.client} : requests'[c] = requests[c]
        /\ call.outcome = "bypass" => requests' = requests
        /\ \A c \in Clients : \A i \in DOMAIN requests'[c] :
              \E k \in DOMAIN rlCalls' :
                  /\ rlCalls'[k].client = c
                  /\ rlCalls'[k].outcome = "accepted"
                  /\ rlCalls'[k].t = requests'[c][i]
    ]_vars

\* C2 witness: two rejected calls of a client in a row, and then a call of that
\* client accepted exactly 60 seconds after its oldest accepted call.
C2_Witness ==
    \E j \in DOMAIN rlCalls :
        /\ j + 2 \in DOMAIN rlCalls
        /\ rlCalls[j].outcome = "rate_limit_exceeded"
        /\ rlCalls[j + 1].outcome = "rate_limit_exceeded"
        /\ rlCalls[j + 1].client = rlCalls[j].client
        /\ rlCalls[j + 2].client = rlCalls[j].client
        /\ rlCalls[j + 2].outcome = "accepted"
        /\ \E i \in 1..(j - 1) :
              /\ rlCalls[i].client = rlCalls[j].client
              /\ rlCalls[i].outcome = "accepted"
              /\ rlCalls[j + 2].t = rlCalls[i].t + 60

\* C3: under every interleaving of the task, cancel_job and status reads, a
\* job record is pending when it is created, a stored record with status
\* completed has progress 100 and a result, and a stored record with status
\* failed has an error code.
C3_RecordOk(rec) ==
    /\ rec.status = "completed" => rec.progress = 100 /\ rec.result # "none"
    /\ rec.status = "failed" => rec.error # "none"
C3_JobRecordInvariant ==
    /\ [](\A j \in JobIds : store[j] # NoRec => C3_RecordOk(store[j]))
    /\ [][\A j \in JobIds :
            store[j] = NoRec /\ store'[j] # NoRec => store'[j].status = "pending"]_vars

\* C3 witness: a job whose cancellation was answered 200 is stored as completed
\* by the task that ran on.
C3_Witness ==
    \E j \in JobIds :
        /\ j \in cancelled200
        /\ store[j] # NoRec
        /\ store[j].status = "completed"

\* C4: a cancellation of a job whose stored status is not pending or
\* processing (completed, failed, cancelled, or no record) is answered 400
\* cannot_cancel, sends no revoke and leaves the store unchanged; a revoke is
\* sent exactly when the status read was processing, and only by a cancellation.
C4_CancelOnlyFromPendingOrProcessing ==
    [][/\ cancels' = cancels + 1 =>
            LET read == store[a_job'].status IN
            /\ read \notin {"pending", "processing"} =>
                  /\ resp' = Response("cancel", a_job', 400, "cannot_cancel", "none")
                  /\ a_pc' = "idle"
                  /\ store' = store
                  /\ revokes' = revokes
                  /\ revoking' = revoking
            /\ read \in {"pending", "processing"} => a_pc' = "cancel_get"
            /\ read = "processing" <=> revokes' = revokes + 1
            /\ read = "processing" => a_job' \in revoking'
            /\ read # "processing" => revoking' \subseteq revoking
       /\ cancels' = cancels => revokes' = revokes /\ revoking' \subseteq revoking
       /\ cancelled200' # cancelled200 =>
            /\ a_status \in {"pending", "processing"}
            /\ resp' = Response("cancel", a_job, 200, "none", "none")
      ]_vars

\* C4 witness: a cancellation of a completed job was answered 400.
C4_Witness ==
    /\ resp = Response("cancel", resp.job, 400, "cannot_cancel", "none")
    /\ resp.job \in JobIds
    /\ store[resp.job] # NoRec
    /\ store[resp.job].status = "completed"
    /\ a_status = "completed"
    /\ revokes = 0

\* C5 (as claimed): once a cancellation of a job was answered 200, a status
\* lookup of that job answers cancelled or completed.
C5_CancelledStaysCancelled ==
    (resp.op = "status" /\ resp.code = 200 /\ resp.job \in cancelled200)
        => resp.status \in {"cancelled", "completed"}

\* C6 (as claimed): an upload failing the extension, MIME or magic-byte check
\* is answered 400 invalid_file_format and an oversize upload 413
\* file_too_large by the synchronous endpoint.
C6_ValidationErrorsTranslated ==
    syncResp # NoRequest =>
        /\ validate_upload_file(syncReq.file) = "InvalidFileFormatError" =>
              syncResp = [code |-> 400, error |-> "invalid_file_format"]
        /\ validate_upload_file(syncReq.file) = "FileTooLargeError" =>
              syncResp = [code |-> 413, error |-> "file_too_large"]

\* C7: a submission made while async processing is disabled, or while the
\* key-value store does not answer a ping, is answered 503 service_unavailable;
\* nothing is saved, no job record or file record is written and no task is
\* enqueued.
C7_AsyncUnavailable ==
    [][submits' = submits + 1 /\ (~enable_async \/ ~redisUp) =>
          /\ resp' = Response("submit", 0, 503, "service_unavailable", "none")
          /\ a_pc' = "idle"
          /\ disk' = disk
          /\ nextFile' = nextFile
          /\ store' = store
          /\ filekey' = filekey
          /\ nextJob' = nextJob
          /\ queue' = queue
          /\ enqueued' = enqueued
      ]_vars

\* C7 witness: async is enabled and connected, the ping of a submission failed
\* (which cleared the available flag) and the submission was answered 503.
C7_Witness ==
    /\ enable_async
    /\ client
    /\ ~available
    /\ submits > 0
    /\ resp = Response("submit", 0, 503, "service_unavailable", "none")
    /\ disk = {}
    /\ enqueued = <<>>

\* C8: when a submission is answered 202 its status is pending, the upload has
\* an allowed extension and is saved under the recorded path, the job record of
\* the returned id is stored as pending, and exactly one task was enqueued for
\* the job, with the job id as task id and the job id and saved path as its
\* arguments; a task is enqueued only for a stored job record, so the worker
\* never starts a task whose job record does not exist.
C8_TasksOf(j, msgs) == {k \in DOMAIN msgs : msgs[k].job = j \/ msgs[k].id = j}
C9_RetryPolicy ==
    /\ [][w_pc = "fail" /\ w_pc' = "retry" /\ ~w_sig =>
            /\ store'[w_task.job].status = "failed"
            /\ store'[w_task.job].error = "transcription_failed"
       ]_vars
    /\ [][w_pc = "retry" /\ w_pc' = "idle" /\ ~w_sig /\ lastEnd' # lastEnd =>
            LET again == [w_task EXCEPT !.retries = @ + 1] IN
            /\ store' = store
            /\ cancels = 0 => store[w_task.job].status = "failed"
            /\ w_task.retries < max_retries =>
                  /\ again \in queue'
                  /\ lastEnd'.exc = "Retry"
            /\ ~(w_task.retries < max_retries) =>
                  /\ queue' = queue
                  /\ again \notin queue'
                  /\ lastEnd'.exc = "TranscriptionFailedError"
       ]_vars
    /\ [](\A j \in JobIds : attempts[j] <= max_retries + 1)
    /\ [](\A msg \in queue : msg.retries <= max_retries)

\* C9 witness: the attempt after the last retry ended with the terminal error.
C9_Witness ==
    /\ lastEnd.job \in JobIds
    /\ lastEnd.exc = "TranscriptionFailedError"
    /\ ~lastEnd.sig
    /\ lastEnd.retries = max_retries
    /\ attempts[lastEnd.job] = max_retries + 1
    /\ store[lastEnd.job].status = "failed"

\* C10 (as claimed): a run in which the soft time limit signal was delivered
\* ends with the job marked failed with error timeout and the time-limit
\* exception re-raised, without a retry.
C10_SoftTimeLimit ==
    (lastEnd.job \in JobIds /\ lastEnd.sig) =>
        /\ lastEnd.marked = "timeout"
        /\ lastEnd.exc = "SoftTimeLimitExceeded"

\* C11: the status of a health report is unhealthy when model-loaded or
\* temp-dir-writable is false; otherwise degraded when async is enabled and
\* store-connected or worker-pool-active is false; otherwise healthy.  With
\* async disabled the two optional checks are reported as absent and the status
\* is never degraded; with the store connected and no active worker it is
\* degraded.
C11_HealthClassification ==
    (health.op = "health" /\ health.code = 200) =>
        LET c == health.checks
            critical == c.model_loaded = "True" /\ c.temp_dir_writable = "True"
            optional == c.redis_connected = "True" /\ c.celery_workers = "True"
        IN
        /\ c.model_loaded = PyBool(health.seen.model)
        /\ c.temp_dir_writable = PyBool(health.seen.temp)
        /\ health.seen.async =>
              /\ c.redis_connected \in {"True", "False"}
              /\ c.celery_workers \in {"True", "False"}
        /\ ~health.seen.async =>
              /\ c.redis_connected = "None"
              /\ c.celery_workers = "None"
              /\ health.status # "degraded"
        /\ health.status = "unhealthy" <=> ~critical
        /\ health.status = "degraded" <=> critical /\ health.seen.async /\ ~optional
        /\ health.status = "healthy" <=> critical /\ (health.seen.async => optional)
        /\ (critical /\ health.seen.async /\ health.seen.available
              /\ health.seen.inspected \in {"none", "empty"}) =>
                  /\ c.redis_connected = "True"
                  /\ c.celery_workers = "False"
                  /\ health.status = "degraded"

\* C11 witness: model loaded, temp dir present, async enabled, the store
\* connected and no active worker: the report says degraded.
C11_Witness ==
    /\ health.op = "health"
    /\ health.code = 200
    /\ health.seen.async
    /\ health.checks.model_loaded = "True"
    /\ health.checks.temp_dir_writable = "True"
    /\ health.checks.redis_connected = "True"
    /\ health.checks.celery_workers = "False"
    /\ health.status = "degraded"

\* C12 (as claimed): the readiness probe answers 200 exactly when the default
\* model is loaded, the temp directory is usable and async is disabled or the
\* store is connected, and 503 otherwise; with async enabled it reports the
\* store as connected only when the store answers a ping at that time.
C12_Readiness ==
    health.op = "ready" =>
        /\ health.code \in {200, 503}
        /\ health.code = 200 <=>
              /\ health.seen.model
              /\ health.seen.temp
              /\ (~health.seen.async \/ health.checks.redis_connected = "True")
        /\ (health.seen.async /\ health.checks.redis_connected = "True") =>
              health.seen.ping

\* C13: a listing of page p with page size s over n stored job records that
\* match the status filter reports total = n and the jobs at positions
\* (p-1)*s .. min(p*s, n)-1 of the matching jobs ordered by creation time,
\* newest first (none when (p-1)*s >= n); a file-path record is never listed.
C13_Matching ==
    {id \in ListJobIds :
        /\ kv[job_key(id)] # NoRec
        /\ listing.status = "None" \/ kv[job_key(id)].status = listing.status}
C13_Pagination ==
    listing # NoListing =>
        LET n == Cardinality(C13_Matching)
            first == (listing.page - 1) * listing.page_size
            last == IF listing.page * listing.page_size < n
                    THEN listing.page * listing.page_size ELSE n
            jobs == listing.jobs
        IN
        /\ listing.total = n
        /\ Len(jobs) = IF first >= n THEN 0 ELSE last - first
        /\ \A i \in DOMAIN jobs :
              /\ jobs[i].job_id \in C13_Matching
              /\ jobs[i] = kv[job_key(jobs[i].job_id)]
              /\ \A id \in ListJobIds : jobs[i] # kv[job_file_key(id)]
              /\ \A j \in DOMAIN jobs : i < j =>
                    /\ jobs[i].job_id # jobs[j].job_id
                    /\ jobs[i].created_at >= jobs[j].created_at
              /\ Cardinality({id \in C13_Matching :
                     kv[job_key(id)].created_at > jobs[i].created_at}) <= first + i - 1
              /\ Cardinality({id \in C13_Matching :
                     kv[job_key(id)].created_at >= jobs[i].created_at}) >= first + i

\* C13 witness: three stored jobs and page size two: the second page of the
\* unfiltered listing holds one job, the oldest, and the total is three.
C13_Witness ==
    /\ listing # NoListing
    /\ listing.status = "None"
    /\ listing.total = 3
    /\ listing.page = 2
    /\ listing.page_size = 2
    /\ Len(listing.jobs) = 1
    /\ \E id \in ListJobIds : kv[job_key(id)].created_at > listing.jobs[1].created_at

\* C14 (as claimed): a deletion of a job id that has no job record in the store
\* is answered 404 job_not_found.
C14_DeleteUnknownIs404 ==
    [][(resp'.op = "delete" /\ resp' # resp /\ store[resp'.job] = NoRec) =>
          /\ resp'.code = 404
          /\ resp'.error = "job_not_found"
      ]_vars

\* C15 (as claimed): a deletion of a job whose stored status is pending or
\* processing is refused with 404 and removes neither the job record, nor the
\* file-path record, nor the input file.
C15_DeleteOnlyFinished ==
    [][(/\ resp'.op = "delete"
        /\ resp' # resp
        /\ store[resp'.job] # NoRec
        /\ store[resp'.job].status \in {"pending", "processing"}) =>
          /\ resp'.code = 404
          /\ store' = store
          /\ filekey' = filekey
          /\ disk' = disk
      ]_vars

\* C16: a call connect(retries = r) made while no connection is cached makes at
\* most r connection attempts and none after the first that succeeds; when an
\* attempt succeeds the connection is cached and the available flag is true;
\* when all r attempts have failed no connection is held and the flag is false.
C16_ConnectRetries ==
    /\ [](conn_tried <= conn_retries)
    /\ [](conn_pc = "done" /\ conn_result = "none" => conn_tried = conn_retries)
    /\ [](conn_pc = "done" /\ conn_result = "cached" => conn_tried = 0)
    /\ [](conn_pc = "trying" => conn_result = "pending" /\ conn_tried < conn_retries)
    /\ [][conn_pc # "trying" /\ conn_pc' = "trying" => ~client /\ conn_tried' = 0]_vars
    /\ [][(conn_pc' = "done" /\ conn_result' = "none" /\ conn_pc # "done") =>
              ~client' /\ ~available']_vars
    /\ [][conn_tried' = conn_tried + 1 =>
            /\ conn_pc = "trying"
            /\ redisUp =>
                  /\ conn_pc' = "done"
                  /\ conn_result' = "connected"
                  /\ client'
                  /\ available'
            /\ (~redisUp /\ conn_tried' < conn_retries) =>
                  /\ conn_pc' = "trying"
                  /\ available' = available
            /\ (~redisUp /\ conn_tried' = conn_retries) =>
                  /\ conn_pc' = "done"
                  /\ conn_result' = "none"
                  /\ ~client'
                  /\ ~available'
       ]_vars

\* C16 witness: connect(retries = 3) succeeded at its second attempt and made
\* no third one; the connection is cached and the flag is up.
C16_Witness ==
    /\ conn_pc = "done"
    /\ conn_result = "connected"
    /\ conn_retries = 3
    /\ conn_tried = 2
    /\ client
    /\ available

\* C17 (as claimed): each firing of the periodic reconnection job that finds
\* async enabled and the available flag down makes a connection attempt, and
\* once the store is reachable and stays reachable the flag becomes true.
C17_SelfHealing ==
    /\ [][hc_tick' # hc_tick => hc_attempted']_vars
    /\ (<>[]redisUp) => <>[](enable_async => available)

\* C18 (as claimed): whatever create_job and update_job calls are made and
\* however much time passes, while the job record exists in the store its
\* file-path record exists too.
C18_FileRecordOutlivesJob == job_ttl > 0 => file_ttl > 0

\* C19: when a run of transcribe_file or of the task body has ended (it
\* returned, raised, asked for a retry or hit the soft time limit), every
\* file it had tracked is gone from the temp directory unless the deletion
\* of that very file failed, and what leaves the run is what left its body.
C19_TrackedFilesCleaned ==
    c_pc = "done" =>
        /\ \A i \in 1..Len(c_tracked) :
              c_tracked[i] \notin c_run.stuck => c_tracked[i] \notin c_disk
        /\ c_outcome = c_run.body

\* A task run that tracked three files and asked for a retry: the input
\* could not be deleted, the other two have been.
C19_Witness ==
    /\ c_pc = "done"
    /\ c_run.kind = "task"
    /\ c_outcome = "Retry"
    /\ Len(c_tracked) = 3
    /\ c_tracked[1] \in c_run.stuck
    /\ c_tracked[1] \in c_disk
    /\ c_tracked[2] \notin c_disk
    /\ c_tracked[3] \notin c_disk

\* The extensions of a file name: nothing, or a final piece of the name that
\* starts with its only dot and holds no slash, in lower case.
C20_IsLoweredExtension(e, filename) ==
    \/ e = <<>>
    \/ /\ Len(e) <= Len(filename)
       /\ e = Lower(SubSeq(filename, Len(filename) - Len(e) + 1, Len(filename)))
       /\ e[1] = "."
       /\ \A i \in 2..Len(e) : e[i] \notin {".", "/"}

\* C20: for every file name get_safe_path raises nothing and returns a path
\* directly under the base directory, whose name is the token followed by
\* the lower-cased extension of the file name and nothing else.
C20_SafePathContained ==
    p_out # NoSafePath =>
        /\ p_out.raised = "none"
        /\ Len(p_out.path) = Len(base_dir) + 1
        /\ SubSeq(p_out.path, 1, Len(base_dir)) = base_dir
        /\ \E e \in {SubSeq(Lower(p_name), k, Len(p_name)) : k \in 1..(Len(p_name) + 1)} :
              /\ C20_IsLoweredExtension(e, p_name)
              /\ p_out.path[Len(p_out.path)] = p_out.token \o e

\* The traversal name has been given a safe path.
C20_Witness ==
    /\ p_name = TraversalName
    /\ p_out.raised = "none"
    /\ p_out.path = Append(base_dir, p_out.token)

\* A path is inside the base directory: below it, component by component.
C21_Inside(path) ==
    /\ Len(path) > Len(base_dir)
    /\ SubSeq(path, 1, Len(base_dir)) = base_dir

\* C21 (as claimed): a completed save_upload leaves a file holding exactly
\* the upload's bytes and a failed one leaves no file; cleanup_file deletes a
\* regular file inside the base directory and returns True, and for a path
\* that is missing, not a regular file or outside the base directory it
\* deletes nothing and returns False.
C21_UploadRoundTrip ==
    [][up_ret' # up_ret =>
          /\ (up_ret'.op = "save" /\ up_ret'.raised = "none")
                => fs'[up_ret'.path] = RegularFile(up_file.data)
          /\ (up_ret'.op = "save" /\ up_ret'.raised # "none")
                => fs'[up_ret'.path] = Missing
          /\ up_ret'.op = "cleanup" =>
                LET target == Resolve(up_ret'.path) IN
                IF fs[target].kind = "file" /\ C21_Inside(target)
                THEN up_ret'.ret /\ fs' = [fs EXCEPT ![target] = Missing]
                ELSE ~up_ret'.ret /\ fs' = fs]_vars

\* C22: validate_upload_file reports the error of the first failing check in
\* the order extension, MIME type, size, magic bytes (a bad extension or MIME
\* type on an oversize file gives invalid format, an oversize file with a
\* wrong header gives too large); on success it returns the lower-cased
\* extension and the size and leaves the stream at offset 0.
C22_ValidationOrder ==
    v_out # NoValidation =>
        LET ext == LowerExt(v_file.ext)
            extBad == ext \notin ALLOWED_EXTENSIONS
            mimeBad == v_file.content_type \notin ALLOWED_MIME_TYPES
            sizeBad == v_file.size > max_file_size
            magicBad == /\ ext \in MagicExtensions
                        /\ \A magic \in MAGIC_BYTES(ext) : ~Contains(v_file.header, magic)
        IN /\ (extBad \/ mimeBad) => v_out.raised = "InvalidFileFormatError"
           /\ (~extBad /\ ~mimeBad /\ sizeBad) => v_out.raised = "FileTooLargeError"
           /\ (~extBad /\ ~mimeBad /\ ~sizeBad /\ magicBad)
                 => v_out.raised = "InvalidFileFormatError"
           /\ (~extBad /\ ~mimeBad /\ ~sizeBad /\ ~magicBad)
                 => /\ v_out.raised = "none"
                    /\ v_out.file_ext = ext
                    /\ v_out.file_size = v_file.size
                    /\ v_out.pos = 0

\* A disallowed extension on an oversize file was reported as invalid format.
C22_Witness ==
    /\ v_file.ext = ".txt"
    /\ v_file.size > max_file_size
    /\ v_out.raised = "InvalidFileFormatError"

\* The number a sequence of digit characters writes.
RECURSIVE C23_Number(_)
C23_Number(digits) ==
    IF digits = <<>> THEN 0
    ELSE 10 * C23_Number(SubSeq(digits, 1, Len(digits) - 1))
         + (CHOOSE d \in 0..9 : DigitChar(d) = digits[Len(digits)])

\* text is HH:MM:SS<sep>mmm for the seconds value of ticks, HH of two digits
\* or more, MM and SS of two, mmm of exactly three digits with value ms.
C23_IsTimestamp(text, sep, ticks, ms) ==
    LET n == Len(text)
        whole == ticks \div TsUnit
    IN /\ n >= 12
       /\ \A i \in 1..n : i \notin {n - 9, n - 6, n - 3} => text[i] \in {DigitChar(d) : d \in 0..9}
       /\ text[n - 9] = ":" /\ text[n - 6] = ":" /\ text[n - 3] = sep
       /\ C23_Number(SubSeq(text, 1, n - 10)) = whole \div 3600
       /\ n > 12 => text[1] # "0"
       /\ C23_Number(SubSeq(text, n - 8, n - 7)) = (whole % 3600) \div 60
       /\ C23_Number(SubSeq(text, n - 5, n - 4)) = whole % 60
       /\ C23_Number(SubSeq(text, n - 2, n)) = ms

C23_Separator == IF ts_out.format = "srt" THEN "," ELSE "."

\* C23 (as claimed): the SRT and VTT timestamps of x are HH:MM:SS,mmm and
\* HH:MM:SS.mmm with mmm = round((x - floor(x)) * 1000) in exactly 3 digits.
C23_TimestampRounded ==
    ts_out # NoTimestamp =>
        C23_IsTimestamp(ts_out.text, C23_Separator, ts_in,
                        RoundHalfEven((ts_in % TsUnit) * 1000, TsUnit))

\* C23 (amended): the same with mmm the fraction truncated to milliseconds,
\* the largest whole number of milliseconds not above (x - floor(x)) * 1000;
\* 65.5 gives 00:01:05,500 and 00:01:05.500, and 0.0 gives 00:00:00,000 and
\* 00:00:00.000.
C23_TimestampTruncated ==
    ts_out # NoTimestamp =>
        /\ \E ms \in 0..999 :
              /\ ms * TsUnit <= (ts_in % TsUnit) * 1000
              /\ (ts_in % TsUnit) * 1000 < (ms + 1) * TsUnit
              /\ C23_IsTimestamp(ts_out.text, C23_Separator, ts_in, ms)
        /\ 2 * ts_in = 131 * TsUnit =>
              ts_out.text = <<"0", "0", ":", "0", "1", ":", "0", "5",
                              C23_Separator, "5", "0", "0">>
        /\ ts_in = 0 =>
              ts_out.text = <<"0", "0", ":", "0", "0", ":", "0", "0",
                              C23_Separator, "0", "0", "0">>

\* 3/32 s = 93.75 ms has been formatted for SRT: 00:00:00,093.
C23_Witness ==
    /\ ts_in * 32 = 3 * TsUnit
    /\ ts_out = [format |-> "srt",
                 text |-> <<"0", "0", ":", "0", "0", ":", "0", "0", ",", "0", "9", "3">>]

\* C24 (as claimed): the estimate is round(duration * m), m looked up by
\* model name and multiplied by 0.3 on the accelerator.
C24_EstimateRounded ==
    est_out # NoEstimate =>
        est_out = RoundHalfEven(est_in.duration * multiplier(est_in.model, est_in.device),
                                EstScale)

\* The multiplier of the claim, in ten-thousandths.
C24_Multiplier(model, device) ==
    LET m == CASE model = "tiny" -> 500
               [] model = "small" -> 2000
               [] model = "medium" -> 5000
               [] model \in {"large", "large-v3"} -> 10000
               [] OTHER -> 1000
    IN IF device = "cuda" THEN (3 * m) \div 10 ELSE m

\* C24 (amended): the estimate is duration * m truncated to a whole number,
\* m being 0.05, 0.1, 0.2, 0.5, 1.0 and 1.0 for tiny, base, small, medium,
\* large and large-v3, 0.1 for any other name, times 0.3 on the accelerator;
\* 600 seconds on base gives 60 on CPU and 18 on the accelerator.
C24_EstimateTruncated ==
    est_out # NoEstimate =>
        /\ est_out * EstScale <= est_in.duration * C24_Multiplier(est_in.model, est_in.device)
        /\ est_in.duration * C24_Multiplier(est_in.model, est_in.device)
              < (est_out + 1) * EstScale
        /\ (est_in.duration = 600 /\ est_in.model = "base") =>
              est_out = IF est_in.device = "cuda" THEN 18 ELSE 60

\* 19 seconds on base on CPU: 1.9 is estimated as 1.
C24_Witness ==
    /\ est_in = [duration |-> 19, model |-> "base", device |-> "cpu"]
    /\ est_out = 1

\* C25 (as claimed): a run of the task that reaches its return wrote
\* (processing, 0), tested the input file, then wrote (processing, 5), 15, 25,
\* 30, 95 and (completed, 100) with the formatted result, in this order and
\* nothing else; and the progress values a run writes never go down.
C25_SuccessfulRun ==
    << <<"processing", 0, "none">>, ExistsEvent,
       <<"processing", 5, "none">>, <<"processing", 15, "none">>,
       <<"processing", 25, "none">>, <<"processing", 30, "none">>,
       <<"processing", 95, "none">>, <<"completed", 100, "formatted_result">> >>
C25_ProgressSequence ==
    /\ w_pc = "return" => w_events = C25_SuccessfulRun
    /\ \A m, n \in DOMAIN w_events :
          (m < n /\ w_events[m][2] # NoProgress /\ w_events[n][2] # NoProgress)
              => w_events[m][2] <= w_events[n][2]

\* C26 (as claimed): once the status of a job record is cancelled, no step
\* changes it.
C26_CancelledIsTerminal ==
    [][\A j \in JobIds :
          store[j].status = "cancelled" => store'[j].status = "cancelled"]_vars

\* C27 (as claimed): when an attempt that passed the input-file existence
\* check failed and scheduled a retry, the input file is on disk when the retry
\* attempt makes its own existence check.
C27_RetryFindsInput ==
    (/\ w_pc = "check"
     /\ lastEnd.job = w_task.job
     /\ lastEnd.retries + 1 = w_task.retries
     /\ lastEnd.exc = "Retry"
     /\ lastEnd.checked)
        => w_task.path \in disk

\* C28 (as claimed): a stored job record carries an error or a detail only
\* while its status is failed, and a result only while its status is
\* completed.
C28_FieldPresenceByStatus ==
    \A j \in JobIds :
        store[j] # NoRec =>
            /\ (store[j].error # "none" \/ store[j].detail # "none")
                  => store[j].status = "failed"
            /\ store[j].result # "none" => store[j].status = "completed"

\* C29 (as claimed): once the status of a job record is failed, no step
\* changes it.
C29_FailedIsFinal ==
    [][\A j \in JobIds :
          store[j].status = "failed" => store'[j].status = "failed"]_vars

\* C30: an update_job call of the task whose get finds no record under the job
\* id returns False and leaves the store as it is; a record that is absent
\* comes into being only by create_job, or by the setex of an update_job call
\* whose get still found the record before it was deleted.
C30_UpdateMissingIsNoOp ==
    [][/\ (w_pc \in UpdatePcs /\ w_read = NoRec /\ w_task' = w_task
                /\ w_pc' = NextPc(w_pc, w_task.path))
            => (store' = store /\ w_ret' = "False")
       /\ \A j \in JobIds :
            (store[j] = NoRec /\ store'[j] # NoRec)
            => \/ a_pc = "create_job" /\ store'[j] = NewJob
               \/ /\ w_pc \in UpdatePcs
                  /\ w_task.job = j
                  /\ w_read \notin {NoRec, Unread}]_vars
C30_Witness ==
    /\ w_pc = "check"
    /\ resp = Response("delete", w_task.job, 200, "none", "none")
    /\ ~w_sig
    /\ w_ret = "False"
    /\ w_events = <<>>
    /\ store[w_task.job] = NoRec

\* C31 (as claimed): an update_job call with status completed leaves progress
\* 100 and the completion time stamped, whatever progress argument it was
\* given; a start time once stamped never changes, and a call with status
\* processing stamps it when there is none.
C31_CompletedForcesProgress ==
    [][u_now' # u_now =>
          /\ u_args'.status = "completed" =>
                (u_data'.progress = 100 /\ u_data'.completed_at = u_now')
          /\ u_data.started_at # NoStamp => u_data'.started_at = u_data.started_at
          /\ (u_args'.status = "processing" /\ u_data.started_at = NoStamp) =>
                u_data'.started_at = u_now']_vars

\* C32 (as claimed): when the first submission to the asynchronous endpoint
\* was answered with anything but 202, the store holds no job record and no
\* file-path record and the temp directory holds no file.
C32_NoOrphanAfterFailedSubmit ==
    (submits = 1 /\ a_pc = "idle" /\ resp.op = "submit" /\ resp.code # 202) =>
        /\ disk = {}
        /\ \A j \in JobIds : store[j] = NoRec /\ filekey[j] = NoPath

\* C33 (as claimed): with the worker going on and no cancellation or deletion,
\* every job whose submission was answered 202 reaches the status completed or
\* failed and keeps it.
C33_Accepted(j) == \E i \in DOMAIN enqueued : enqueued[i].job = j
C33_AcceptedJobTerminates ==
    \A j \in JobIds :
        C33_Accepted(j) ~> ([](store[j].status = "completed")
                            \/ [](store[j].status = "failed"))

\* C34: in any interleaving of get_model calls, an entry of the cache is never
\* removed or replaced, the constructor succeeds at most once per key, all
\* calls for a key return the one cached instance, a failed load raises
\* ModelLoadError and leaves the cache as it was, and a call that finds no
\* entry for its key runs the loader.
C34_ModelCache ==
    /\ [](\A k \in CacheKeys :
            /\ m_loaded[k] <= 1
            /\ Cardinality(m_returned[k]) <= 1
            /\ m_returned[k] \subseteq {m_models[k]} \ {NoModel})
    /\ [][\A k \in CacheKeys :
            m_models[k] # NoModel => m_models'[k] = m_models[k]]_vars
    /\ [][\A t \in Threads :
            /\ (m_ret'[t] # m_ret[t] /\ m_ret'[t].raised = "ModelLoadError")
                  => (m_pc[t] = "load" /\ m_models' = m_models)
            /\ (m_pc[t] = "acquire" /\ m_pc'[t] # "acquire")
                  => (m_pc'[t] = "load" <=> m_models[KeyOf(m_call[t])] = NoModel)]_vars
C34_Witness ==
    /\ m_calls = 2
    /\ m_pc = [t \in Threads |-> "idle"]
    /\ m_ret["t1"].raised = "ModelLoadError"
    /\ m_ret["t2"].raised = "none"
    /\ m_call["t1"] = m_call["t2"]
    /\ m_ret["t2"].model = m_models[KeyOf(m_call["t2"])]
    /\ m_loaded[KeyOf(m_call["t2"])] = 1

\* C35 (as claimed): whenever the available flag is true a connection is
\* cached, so after disconnect, which forgets the connection, the flag is
\* false; and after a connect call that used up its attempts the flag is false.
C35_AvailableImpliesConnection ==
    /\ available => client
    /\ (conn_pc = "done" /\ conn_result = "none") => ~available

\* C36 (as claimed): when delete_job returns True, the job record and the
\* file-path record of the job are absent and the file the file-path record
\* named is not on disk.
C36_Returned(j) ==
    /\ a_pc = "del_file_key"
    /\ a_job = j
    /\ resp' = Response("delete", j, 200, "none", "none")
C37_DurationLimitOnBothEndpoints ==
    /\ s_too_long =>
          /\ a_pc \notin {"create_file", "enqueue"}
          /\ ~(a_pc = "idle" /\ resp.op = "submit" /\ resp.code = 202)
    /\ (/\ syncResp # NoRequest
        /\ syncReq.too_long
        /\ validate_upload_file(syncReq.file) = "none"
        /\ syncReq.fails \notin {"save", "probe"})
          => syncResp = [code |-> 422, error |-> "invalid_parameter"]

\* C38 (as claimed): with async enabled, a startup that goes on without the
\* store has made 10 connection attempts with 3 seconds between them; from the
\* start of the connection attempts until shutdown the reconnection scheduler
\* runs; after shutdown it is stopped and no connection is cached.
C38_StartupConnectionBudget ==
    enable_async =>
        /\ (l_pc \in {"preloading", "up", "stopped"} /\ conn_result = "none")
              => (conn_tried = 10 /\ l_slept = 9 * 3)
        /\ l_pc \in {"connecting", "preloading", "up"} => l_scheduler
        /\ l_pc = "stopped" => (~l_scheduler /\ ~client)

====
